---- MODULE Spec2Model ----
(***************************************************************************)
(* Function-level diff extraction (src/mcp/diffops.py,                     *)
(* FuncLevelDiffGenerator).  Texts are sequences of one-character strings; *)
(* a line is a text that ends with the newline character, except possibly  *)
(* the last line of a text.  Line numbers are 1-based, byte offsets and    *)
(* difflib indices are 0-based and half-open, as in the source.            *)
(***************************************************************************)
EXTENDS Integers, Sequences, FiniteSets, TLC

VARIABLES
    pc,          \* position of the operation under analysis
    pre_text,    \* generate_function_unified_diff: pre_text
    post_text,   \* generate_function_unified_diff: post_text
    paths,       \* <<a_path, b_path>>
    diff,        \* the lines yielded by difflib.unified_diff (local `diff`)
    func_diff,   \* the returned text ''.join(diff)
    hunks,       \* the hunks the version-control layer put into the file diff
    unified_diff,\* get_diff_changed_lines: the file diff, as a list of lines
    ranges_out,  \* get_diff_changed_lines: DiffRanges returned, or the error raised
    span,        \* function_overlaps_changes: func_span
    changed,     \* function_overlaps_changes: changed_ranges
    overlap_out, \* function_overlaps_changes: result
    pre_file,    \* extract_function_diffs_from_file_diff: pre-image file
    post_file,   \* extract_function_diffs_from_file_diff: post-image file
    file_diff,   \* extract_function_diffs_from_file_diff: file_unified_diff
    file_path,   \* extract_function_diffs_from_file_diff: file_path
    affected,    \* extract_function_diffs_from_file_diff: affected_functions
    repo,        \* self.repo: the tree of every commit, first parents in order
    available,   \* the languages whose parser get_parser can load
    commit,      \* extract_function_diffs_from_commit: commit_hash
    depth,       \* extract_function_diffs_from_commit: max_history_scan_depth
    parsers,     \* self.parsers (languages with a loaded parser)
    outcome,     \* extract_function_diffs_from_commit: how the call ended
    scan_result, \* _get_interesting_commit: the commit returned, or None
    files_changed, \* _is_interesting_commit: changed_files
    interesting, \* _is_interesting_commit: result
    language_configs, \* self.language_configs (languages with a stored config)
    requested, \* how often _load_parser was called, per language
    loads, \* how often a parser was stored in self.parsers, per language
    calls, \* the calls made on the handle so far
    repo_cache, \* self.repo_cache is set: a cache directory is configured
    env, \* the remote's branches and the operations that fail in this run
    cache_dir, \* what the cache path of the repository holds on disk
    temp_dir, \* what the temporary clone location holds on disk
    git_log, \* the version-control and file operations performed, in order
    repo_path, \* self.repo_path
    cleanup_repo, \* self.cleanup_repo
    clone_out, \* clone_repository: how the call ended
    self_repo, \* self.repo: the path of the repository that is open, or None
    cleanups, \* the calls of cleanup made so far
    response, \* RepoCloner: the response returned, or the error raised
    blob_index, \* get_file_at_commit: file_path, as its place in RepoPaths
    changed_out, \* get_changed_files: the paths returned
    diffs_out, \* get_changed_files_with_diffs: the mapping returned
    file_out, \* get_file_at_commit: the text returned, or the error raised
    ast_file, \* extract_functions_from_ast: text, and the tree the parser builds from it
    ast_config, \* extract_functions_from_ast: language_config
    functions, \* extract_functions_from_ast: the list `functions` returned
    vulnerabilities, \* vulnerable_function_presentation: vulnerabilities
    format_out, \* vulnerable_function_presentation: the message returned, or the error raised
    cve_ids, \* main: cve_ids, the CVEs to process
    checkpoint_frequency, \* main: checkpoint_frequency
    processed_results, \* main: processed_results
    checkpointer, \* SaveCheckpointCallback: checkpoint_counter and last_checkpoint_index
    checkpoint_files, \* the checkpoint files on disk, chpk0.json first
    final_saved \* whether the checkpoint after the loop was written

vars == <<pc, pre_text, post_text, paths, diff, func_diff, hunks, unified_diff,
          ranges_out, span, changed, overlap_out, pre_file, post_file,
          file_diff, file_path, affected, repo, available, commit, depth, parsers,
          outcome,
                   scan_result, files_changed, interesting,
                   language_configs, requested, loads, calls,
                   repo_cache, env, cache_dir, temp_dir, git_log, repo_path, cleanup_repo, clone_out,
                   self_repo, cleanups, response,
                   blob_index, changed_out, diffs_out, file_out,
                   ast_file, ast_config, functions,
                   vulnerabilities, format_out,
                   cve_ids, checkpoint_frequency, processed_results, checkpointer, checkpoint_files, final_saved>>

----------------------------------------------------------------------------
(* Bounds of the model *)

\* longest function text, in lines
MaxLines == 3

\* most hunks in a file diff
MaxHunks == 2

\* most context lines on each side of a hunk, most removed and most added lines
MaxCount == 1

\* highest line number of a span or range given to function_overlaps_changes
MaxLineNo == 3

\* most ranges given to function_overlaps_changes
MaxRanges == 2

\* top-level nodes of a source file
MaxItems == 2

\* context lines of a file diff
MaxContext == 1

\* commits of the repository
MaxCommits == 3

\* max_history_scan_depth
MaxDepth == 3

\* calls made on one repository handle
MaxCalls == 3

\* the CVEs of one run of main
MaxCves == 4

\* the largest checkpoint_frequency
MaxFrequency == 5

\* the calls of cleanup on one handle
MaxCleanups == 2

\* nested calls the interpreter allows (sys.getrecursionlimit())
RecursionLimit == 4

----------------------------------------------------------------------------
(* Characters and texts *)

NL == "\n"
None == "None"

\* the line bodies the bounded texts are made of
LineBodies == {<<"a">>, <<"b">>}

\* the element of a one-element set; { e : x \in {v} } names the value v once
Only(S) == CHOOSE v \in S : TRUE

RECURSIVE Concat(_)
\* ''.join(seq)
Concat(seq0) ==
    Only({IF seq = <<>> THEN <<>> ELSE Head(seq) \o Concat(Tail(seq)) : seq \in {seq0}})

RECURSIVE SeqsUpTo(_, _)
\* the sequences over S of length at most n
SeqsUpTo(S, n) ==
    IF n = 0 THEN {<<>>}
    ELSE Only({shorter \cup {Append(s, x) : s \in {t \in shorter : Len(t) = n - 1}, x \in S} :
               shorter \in {SeqsUpTo(S, n - 1)}})

\* the texts of at most n lines; the last line may lack its newline
Texts(n) ==
    Only({full \cup {SubSeq(t, 1, Len(t) - 1) : t \in full \ {<<>>}} :
          full \in {{Concat([i \in 1..Len(ls) |-> ls[i] \o <<NL>>]) : ls \in SeqsUpTo(LineBodies, n)}}})

Max(x, y) == IF x >= y THEN x ELSE y
Min(x, y) == IF x <= y THEN x ELSE y

\* the members of a list
SetOf(seq) == {seq[i] : i \in 1..Len(seq)}

\* the largest member of a non-empty set of numbers
Max_of(S) == CHOOSE x \in S : \A y \in S : y <= x

\* the smallest member of a non-empty set of numbers
Min_of(S) == CHOOSE x \in S : \A y \in S : x <= y

Digit == <<"1", "2", "3", "4", "5", "6", "7", "8", "9">>

RECURSIVE Str(_)
\* str(n) for a natural number
Str(n) ==
    IF n = 0 THEN <<"0">>
    ELSE IF n < 10 THEN <<Digit[n]>>
    ELSE Str(n \div 10) \o (IF n % 10 = 0 THEN <<"0">> ELSE <<Digit[n % 10]>>)

\* the position of the first newline of a text, or its length if it has none
first_break(text) ==
    IF \E i \in 1..Len(text) : text[i] = NL
    THEN CHOOSE i \in 1..Len(text) : text[i] = NL /\ \A k \in 1..(i - 1) : text[k] # NL
    ELSE Len(text)

RECURSIVE splitlines(_)
\* str.splitlines(keepends=True): the lines of a text, each with its newline
splitlines(text0) ==
    Only({IF text = <<>> THEN <<>>
          ELSE <<SubSeq(text, 1, cut)>> \o splitlines(SubSeq(text, cut + 1, Len(text))) :
          text \in {text0}, cut \in {first_break(text0)}})

\* a[i:j] with 0-based half-open indices
Slice(a, i, j) == SubSeq(a, i + 1, j)

----------------------------------------------------------------------------
(* difflib.SequenceMatcher(None, a, b), no junk, as used by unified_diff *)

RECURSIVE RunLen(_, _, _, _, _, _)
\* length of the longest common run a[i:i+k] = b[j:j+k] inside a[:ahi], b[:bhi]
RunLen(a, b, i, j, ahi, bhi) ==
    IF i < ahi /\ j < bhi /\ a[i + 1] = b[j + 1]
    THEN 1 + RunLen(a, b, i + 1, j + 1, ahi, bhi)
    ELSE 0

\* find_longest_match: the longest block, earliest in a, then earliest in b
find_longest_match(a, b, alo, ahi, blo, bhi) ==
    Only({IF hits = {} THEN <<alo, blo, 0>>
          ELSE CHOOSE c \in hits :
                  \A d \in hits :
                      \/ c[3] > d[3]
                      \/ c[3] = d[3] /\ c[1] < d[1]
                      \/ c[3] = d[3] /\ c[1] = d[1] /\ c[2] <= d[2] :
          hits \in {{c \in {<<i, j, RunLen(a, b, i, j, ahi, bhi)>> :
                              i \in alo..(ahi - 1), j \in blo..(bhi - 1)} : c[3] > 0}}})

RECURSIVE matching_blocks(_, _, _, _, _, _)
\* get_matching_blocks without the final sentinel, in increasing order
matching_blocks(a, b, alo0, ahi0, blo0, bhi0) ==
    Only({IF m[3] = 0 THEN <<>>
          ELSE (IF alo < m[1] /\ blo < m[2]
                THEN matching_blocks(a, b, alo, m[1], blo, m[2]) ELSE <<>>)
               \o <<m>>
               \o (IF m[1] + m[3] < ahi /\ m[2] + m[3] < bhi
                   THEN matching_blocks(a, b, m[1] + m[3], ahi, m[2] + m[3], bhi) ELSE <<>>) :
          alo \in {alo0}, ahi \in {ahi0}, blo \in {blo0}, bhi \in {bhi0},
          m \in {find_longest_match(a, b, alo0, ahi0, blo0, bhi0)}})

RECURSIVE collapse(_)
\* get_matching_blocks: adjacent equal blocks are merged into one
collapse(blocks0) ==
    Only({IF Len(blocks) < 2 THEN blocks
          ELSE IF blocks[1][1] + blocks[1][3] = blocks[2][1]
                  /\ blocks[1][2] + blocks[1][3] = blocks[2][2]
          THEN collapse(<<<<blocks[1][1], blocks[1][2], blocks[1][3] + blocks[2][3]>>>>
                        \o Tail(Tail(blocks)))
          ELSE <<blocks[1]>> \o collapse(Tail(blocks)) :
          blocks \in {blocks0}})

get_matching_blocks(a, b) ==
    Append(collapse(matching_blocks(a, b, 0, Len(a), 0, Len(b))), <<Len(a), Len(b), 0>>)

\* get_opcodes: the tag of the gap before a matching block at (ai, bj)
gap_tag(i, j, ai, bj) ==
    IF i < ai /\ j < bj THEN "replace"
    ELSE IF i < ai THEN "delete"
    ELSE IF j < bj THEN "insert"
    ELSE ""

RECURSIVE opcodes_from(_, _, _)
\* get_opcodes: the loop over the matching blocks, from position (i, j)
opcodes_from(blocks0, i0, j0) ==
    Only({IF blocks = <<>> THEN <<>>
          ELSE (IF gap_tag(i, j, blocks[1][1], blocks[1][2]) # ""
                THEN <<<<gap_tag(i, j, blocks[1][1], blocks[1][2]),
                         i, blocks[1][1], j, blocks[1][2]>>>>
                ELSE <<>>)
               \o (IF blocks[1][3] > 0
                   THEN <<<<"equal", blocks[1][1], blocks[1][1] + blocks[1][3],
                            blocks[1][2], blocks[1][2] + blocks[1][3]>>>>
                   ELSE <<>>)
               \o opcodes_from(Tail(blocks), blocks[1][1] + blocks[1][3],
                               blocks[1][2] + blocks[1][3]) :
          blocks \in {blocks0}, i \in {i0}, j \in {j0}})

get_opcodes(a, b) == opcodes_from(get_matching_blocks(a, b), 0, 0)

RECURSIVE group_codes(_, _, _)
\* get_grouped_opcodes: the loop that cuts the opcodes into groups
group_codes(codes0, n, group0) ==
    Only({IF codes = <<>>
          THEN IF group # <<>> /\ ~(Len(group) = 1 /\ group[1][1] = "equal")
               THEN <<group>> ELSE <<>>
          ELSE IF codes[1][1] = "equal" /\ codes[1][3] - codes[1][2] > n + n
          THEN <<Append(group, <<"equal", codes[1][2], Min(codes[1][3], codes[1][2] + n),
                                 codes[1][4], Min(codes[1][5], codes[1][4] + n)>>)>>
               \o group_codes(Tail(codes), n,
                              <<<<"equal", Max(codes[1][2], codes[1][3] - n), codes[1][3],
                                  Max(codes[1][4], codes[1][5] - n), codes[1][5]>>>>)
          ELSE group_codes(Tail(codes), n, Append(group, codes[1])) :
          codes \in {codes0}, group \in {group0}})

\* the first opcode, if it is an equal block, keeps its last n lines
trim_first(codes, n) ==
    IF codes[1][1] = "equal"
    THEN [codes EXCEPT ![1] = <<"equal", Max(@[2], @[3] - n), @[3], Max(@[4], @[5] - n), @[5]>>]
    ELSE codes

\* the last opcode, if it is an equal block, keeps its first n lines
trim_last(codes, n) ==
    IF codes[Len(codes)][1] = "equal"
    THEN [codes EXCEPT ![Len(codes)] =
              <<"equal", @[2], Min(@[3], @[2] + n), @[4], Min(@[5], @[4] + n)>>]
    ELSE codes

get_grouped_opcodes(a, b, n) ==
    Only({group_codes(trim_last(trim_first(codes, n), n), n, <<>>) :
          codes \in {Only({IF c = <<>> THEN <<<<"equal", 0, 1, 0, 1>>>> ELSE c :
                           c \in {get_opcodes(a, b)}})}})

\* difflib._format_range_unified(start, stop)
format_range_unified(start, stop) ==
    LET beginning == start + 1
        length == stop - start
    IN  IF length = 1 THEN Str(beginning)
        ELSE IF length = 0 THEN Str(beginning - 1) \o <<",">> \o Str(length)
        ELSE Str(beginning) \o <<",">> \o Str(length)

\* the lines one opcode contributes to a hunk
opcode_lines(a, b, c0) ==
    Only({IF tag = "equal" THEN [k \in 1..Len(old) |-> <<" ">> \o old[k]]
          ELSE (IF tag \in {"replace", "delete"}
                THEN [k \in 1..Len(old) |-> <<"-">> \o old[k]] ELSE <<>>)
               \o (IF tag \in {"replace", "insert"}
                   THEN [k \in 1..Len(new) |-> <<"+">> \o new[k]] ELSE <<>>) :
          tag \in {c0[1]}, old \in {Slice(a, c0[2], c0[3])}, new \in {Slice(b, c0[4], c0[5])}})

\* the lines of one group: the @@ header and the body
hunk_lines(a, b, group0) ==
    Only({<< <<"@", "@", " ", "-">> \o format_range_unified(group[1][2], group[Len(group)][3])
             \o <<" ", "+">> \o format_range_unified(group[1][4], group[Len(group)][5])
             \o <<" ", "@", "@", NL>> >>
          \o Concat([k \in 1..Len(group) |-> opcode_lines(a, b, group[k])]) :
          group \in {group0}})

\* difflib.unified_diff(a, b, fromfile, tofile, n): the lines it yields
difflib_unified_diff(a, b, fromfile, tofile, n) ==
    Only({IF groups = <<>> THEN <<>>
          ELSE << <<"-", "-", "-", " ">> \o fromfile \o <<NL>>,
                  <<"+", "+", "+", " ">> \o tofile \o <<NL>> >>
               \o Concat([g \in 1..Len(groups) |-> hunk_lines(a, b, groups[g])]) :
          groups \in {get_grouped_opcodes(a, b, n)}})

----------------------------------------------------------------------------
(* FuncLevelDiffGenerator.generate_function_unified_diff *)

\* a context window of one line around each change
context_size_one(pre_lines, post_lines) == 1

\* the context window: n = max(len(pre_lines), len(post_lines))
context_size(pre_lines, post_lines) == Max(Len(pre_lines), Len(post_lines))

\* the local `diff`: the lines of the unified diff of the two function texts
function_diff_lines(pre, post, a_path, b_path) ==
    Only({difflib_unified_diff(pre_lines, post_lines, a_path, b_path,
                               context_size(pre_lines, post_lines)) :
          pre_lines \in {splitlines(pre)}, post_lines \in {splitlines(post)}})

generate_function_unified_diff(pre, post, a_path, b_path) ==
    Concat(function_diff_lines(pre, post, a_path, b_path))

----------------------------------------------------------------------------
(* Paths *)

DevNull == <<"/", "d", "e", "v", "/", "n", "u", "l", "l">>
SrcPath == <<"a", "/", "f">>
TgtPath == <<"b", "/", "f">>

\* the (a_path, b_path) pairs of a modified, an added and a deleted file
PathPairs == {<<SrcPath, TgtPath>>, <<DevNull, TgtPath>>, <<SrcPath, DevNull>>}

----------------------------------------------------------------------------
(* Values of the variables an operation does not use *)

Idle == "idle"

SynthIdle ==
    /\ pre_text = <<>> /\ post_text = <<>> /\ paths = <<DevNull, DevNull>>
    /\ diff = <<>> /\ func_diff = <<>>

NoRanges == [status |-> Idle, error |-> None, source_ranges |-> <<>>, target_ranges |-> <<>>]

NoHunks == [form |-> "intact", list |-> <<>>]

RangesIdle == hunks = NoHunks /\ unified_diff = <<>> /\ ranges_out = NoRanges

OverlapIdle == span = <<1, 1>> /\ changed = <<>> /\ overlap_out = FALSE

NoRecords == [status |-> Idle, error |-> None, records |-> <<>>]

FileIdle ==
    /\ pre_file = Idle /\ post_file = Idle /\ file_diff = <<>> /\ file_path = <<>>
    /\ affected = NoRecords

CommitIdle ==
    /\ repo = <<>> /\ available = {} /\ commit = 0 /\ depth = 0 /\ outcome = NoRecords

ScanIdle ==
    scan_result = 0 /\ files_changed = {} /\ interesting = FALSE

HandleIdle ==
    language_configs = {} /\ requested = <<>> /\ loads = <<>> /\ calls = 0

CloneIdle ==
    /\ repo_cache = FALSE /\ env = <<>> /\ cache_dir = <<>> /\ temp_dir = <<>>
    /\ git_log = <<>> /\ repo_path = None /\ cleanup_repo = FALSE /\ clone_out = <<>>

TeardownIdle ==
    self_repo = None /\ cleanups = 0 /\ response = <<>>

AccessIdle ==
    blob_index = 0 /\ changed_out = Idle /\ diffs_out = Idle /\ file_out = Idle

AstIdle ==
    ast_file = Idle /\ ast_config = Idle /\ functions = Idle

FormatIdle ==
    vulnerabilities = <<>> /\ format_out = Idle

MainIdle ==
    /\ cve_ids = <<>> /\ checkpoint_frequency = 1 /\ processed_results = <<>>
    /\ checkpointer = Idle /\ checkpoint_files = <<>> /\ final_saved = FALSE

----------------------------------------------------------------------------
(* Specification of generate_function_unified_diff *)

SynthInit ==
    /\ pc = "synth"
    /\ pre_text \in Texts(MaxLines)
    /\ post_text \in Texts(MaxLines)
    /\ paths \in PathPairs
    /\ diff = <<>>
    /\ func_diff = <<>>
    /\ RangesIdle /\ OverlapIdle /\ FileIdle /\ CommitIdle /\ parsers = {} /\ ScanIdle /\ HandleIdle /\ CloneIdle /\ TeardownIdle /\ AccessIdle /\ AstIdle /\ FormatIdle /\ MainIdle

GenerateFunctionDiff ==
    /\ pc = "synth"
    /\ diff' = function_diff_lines(pre_text, post_text, paths[1], paths[2])
    /\ func_diff' = generate_function_unified_diff(pre_text, post_text, paths[1], paths[2])
    /\ pc' = "synth_done"
    /\ UNCHANGED <<pre_text, post_text, paths, hunks, unified_diff, ranges_out, span,
                   changed, overlap_out, pre_file, post_file, file_diff, file_path, affected,
                   repo, available, commit, depth, parsers, outcome,
                   scan_result, files_changed, interesting,
                   language_configs, requested, loads, calls,
                   repo_cache, env, cache_dir, temp_dir, git_log, repo_path, cleanup_repo, clone_out,
                   self_repo, cleanups, response,
                   blob_index, changed_out, diffs_out, file_out,
                   ast_file, ast_config, functions,
                   vulnerabilities, format_out,
                   cve_ids, checkpoint_frequency, processed_results, checkpointer, checkpoint_files, final_saved>>

SynthNext == GenerateFunctionDiff

SynthSpec == SynthInit /\ [][SynthNext]_vars

----------------------------------------------------------------------------
(* Reading a function diff back *)

\* the lines of `diff` after the two file headers and the hunk header
HunkBody(d) == SubSeq(d, 4, Len(d))

\* the lines of a hunk body whose tag is in tags, without the tag
Tagged(body, tags) ==
    LET sel == SelectSeq(body, LAMBDA l : l[1] \in tags)
    IN  [k \in 1..Len(sel) |-> Tail(sel[k])]

RECURSIVE ApplyBody(_, _)
\* apply the body lines of a hunk to the source lines src; every line is
\* taken with its line ending, as it stands in the diff text
ApplyBody(body, src) ==
    IF body = <<>> THEN [ok |-> TRUE, lines |-> src]
    ELSE LET tag == Head(body)[1]
             payload == Tail(Head(body))
         IN  IF tag = "+"
             THEN LET rest == ApplyBody(Tail(body), src)
                  IN  [ok |-> rest.ok, lines |-> <<payload>> \o rest.lines]
             ELSE IF tag \in {" ", "-"} /\ src # <<>> /\ Head(src) = payload
             THEN LET rest == ApplyBody(Tail(body), Tail(src))
                  IN  [ok |-> rest.ok,
                       lines |-> (IF tag = " " THEN <<payload>> ELSE <<>>) \o rest.lines]
             ELSE [ok |-> FALSE, lines |-> <<>>]

\* apply a one-hunk unified diff text to a text: the patched text, or ok = FALSE
\* when the diff does not apply
ApplyDiff(text, d) ==
    IF d = <<>> THEN [ok |-> TRUE, text |-> text]
    ELSE LET dl == splitlines(d)
         IN  IF Len(dl) < 3 \/ dl[3][1] # "@" THEN [ok |-> FALSE, text |-> <<>>]
             ELSE LET r == ApplyBody(HunkBody(dl), splitlines(text))
                  IN  [ok |-> r.ok, text |-> Concat(r.lines)]

----------------------------------------------------------------------------
(* Claims about generate_function_unified_diff *)

C2_RoundTrip ==
    pc = "synth_done" =>
        ApplyDiff(pre_text, func_diff) = [ok |-> TRUE, text |-> post_text]

----------------------------------------------------------------------------
(* The file diff of one changed file, as get_changed_files_with_diffs builds it *)

\* a hunk as the version-control layer computes it: ctx unchanged lines, then
\* dels removed lines, then adds added lines, then ctx unchanged lines
HunkShapes ==
    {sh \in [ctx : 0..MaxCount, dels : 0..MaxCount, adds : 0..MaxCount] :
        sh.dels + sh.adds > 0}

source_length_of(sh) == sh.ctx + sh.dels + sh.ctx
target_length_of(sh) == sh.ctx + sh.adds + sh.ctx

RECURSIVE PlaceHunks(_, _, _, _)
\* the hunks of the given shapes, one unchanged line apart, the first after
\* gap unchanged lines; src and tgt count the lines already passed.  A side
\* of length 0 starts at the line before the change.
PlaceHunks(shapes, gap, src, tgt) ==
    IF shapes = <<>> THEN <<>>
    ELSE LET sh == Head(shapes)
             sl == source_length_of(sh)
             tl == target_length_of(sh)
             h == [source_start |-> IF sl > 0 THEN src + gap + 1 ELSE src + gap,
                   source_length |-> sl,
                   target_start |-> IF tl > 0 THEN tgt + gap + 1 ELSE tgt + gap,
                   target_length |-> tl,
                   shape |-> sh]
         IN  <<h>> \o PlaceHunks(Tail(shapes), 1, src + gap + sl, tgt + gap + tl)

\* the range of a hunk header: the length is left out when it is 1
header_range(start, length) ==
    IF length = 1 THEN Str(start) ELSE Str(start) \o <<",">> \o Str(length)

Repeat(x, n) == [k \in 1..n |-> x]

\* the lines of one hunk: its @@ header and its body
render_hunk(h) ==
    << <<"@", "@", " ", "-">> \o header_range(h.source_start, h.source_length)
       \o <<" ", "+">> \o header_range(h.target_start, h.target_length)
       \o <<" ", "@", "@", NL>> >>
    \o Repeat(<<" ", "c", NL>>, h.shape.ctx)
    \o Repeat(<<"-", "o", NL>>, h.shape.dels)
    \o Repeat(<<"+", "n", NL>>, h.shape.adds)
    \o Repeat(<<" ", "c", NL>>, h.shape.ctx)

\* diff.diff of the version-control layer: the hunks, without file headers
render_hunks(hs) == Concat([k \in 1..Len(hs) |-> render_hunk(hs[k])])

\* header = f"{a_path}\n{b_path}\n"; full_diff = header + diff_text
full_diff(a_path, b_path, diff_text) ==
    << <<"-", "-", "-", " ">> \o a_path \o <<NL>>,
       <<"+", "+", "+", " ">> \o b_path \o <<NL>> >> \o diff_text

----------------------------------------------------------------------------
(* unidiff.PatchSet, as get_diff_changed_lines and get_a_and_b_paths use it *)

StartsWith(line, prefix) ==
    Len(line) >= Len(prefix) /\ SubSeq(line, 1, Len(prefix)) = prefix

RECURSIVE SplitOn(_, _)
\* the fields of a character sequence between the separators sep
SplitOn(chars, sep) ==
    LET at == {i \in 1..Len(chars) : chars[i] = sep}
    IN  IF at = {} THEN <<chars>>
        ELSE LET i == CHOOSE x \in at : \A y \in at : x <= y
             IN  <<SubSeq(chars, 1, i - 1)>> \o SplitOn(SubSeq(chars, i + 1, Len(chars)), sep)

IsDigit(c) == c = "0" \/ \E d \in 1..9 : Digit[d] = c

IsNumber(chars) == chars # <<>> /\ \A i \in 1..Len(chars) : IsDigit(chars[i])

RECURSIVE ParseInt(_)
\* int(chars) for a sequence of digits
ParseInt(chars) ==
    IF chars = <<>> THEN 0
    ELSE LET c == chars[Len(chars)]
             v == IF c = "0" THEN 0 ELSE CHOOSE d \in 1..9 : Digit[d] = c
         IN  10 * ParseInt(SubSeq(chars, 1, Len(chars) - 1)) + v

\* RE_HUNK_HEADER: "@@ -s[,l] +s[,l] @@"; the match as its fields, or <<>>
hunk_header_fields(line) ==
    LET f == SplitOn(SelectSeq(line, LAMBDA c : c # NL), " ")
    IN  IF /\ Len(f) >= 4
           /\ f[1] = <<"@", "@">>
           /\ f[4] = <<"@", "@">>
           /\ StartsWith(f[2], <<"-">>)
           /\ StartsWith(f[3], <<"+">>)
           /\ \A side \in {Tail(f[2]), Tail(f[3])} :
                 LET n == SplitOn(side, ",")
                 IN  Len(n) \in {1, 2} /\ \A k \in 1..Len(n) : IsNumber(n[k])
        THEN <<SplitOn(Tail(f[2]), ","), SplitOn(Tail(f[3]), ",")>>
        ELSE <<>>

\* a length left out of the header read as 0
default_length_none(n) == IF Len(n) = 2 THEN ParseInt(n[2]) ELSE 0

\* Hunk.__init__: a length left out of the header is 1
default_length(n) == IF Len(n) = 2 THEN ParseInt(n[2]) ELSE 1

Hunk(fields) ==
    [source_start |-> ParseInt(fields[1][1]),
     source_length |-> default_length(fields[1]),
     target_start |-> ParseInt(fields[2][1]),
     target_length |-> default_length(fields[2])]

RECURSIVE parse_hunk_body(_, _, _, _, _)
\* PatchedFile._parse_hunk: the loop over the body lines.  s and t are
\* source_line_no and target_line_no, es and et the expected ends.
parse_hunk_body(lines, s, t, es, et) ==
    IF lines = <<>>
    THEN [error |-> IF s < es \/ t < et THEN "Hunk is shorter than expected" ELSE None,
          rest |-> <<>>]
    ELSE LET line == Head(lines)
             type == IF line = <<NL>> THEN " " ELSE line[1]
         IN  IF type \notin {"-", " ", "+", "\\"}
             THEN [error |-> "Hunk diff line expected", rest |-> <<>>]
             ELSE LET s2 == IF type \in {"-", " "} THEN s + 1 ELSE s
                      t2 == IF type \in {"+", " "} THEN t + 1 ELSE t
                  IN  IF s2 > es \/ t2 > et
                      THEN [error |-> "Hunk is longer than expected", rest |-> <<>>]
                      ELSE IF s2 = es /\ t2 = et
                      THEN [error |-> None, rest |-> Tail(lines)]
                      ELSE parse_hunk_body(Tail(lines), s2, t2, es, et)

RECURSIVE parse_lines(_, _, _, _, _)
\* PatchSet._parse: files are the PatchedFiles so far, cur is the index of
\* current_file (0 for None), source_file the last source header seen,
\* info whether patch_info is not None
parse_lines(lines, files, cur, source_file, info) ==
    IF lines = <<>> THEN [error |-> None, files |-> files]
    ELSE LET line == Head(lines)
             rest == Tail(lines)
             name == SelectSeq(SubSeq(line, 5, Len(line)), LAMBDA c : c # NL)
             fields == hunk_header_fields(line)
         IN  IF StartsWith(line, <<"-", "-", "-", " ">>) /\ name # <<>>
             THEN IF cur # 0 /\ files[cur].source_file # name
                  THEN parse_lines(rest, files, 0, name, info)
                  ELSE parse_lines(rest, files, cur, name, info)
             ELSE IF StartsWith(line, <<"+", "+", "+", " ">>) /\ name # <<>>
             THEN IF cur # 0 /\ files[cur].target_file # name
                  THEN [error |-> "Target without source", files |-> files]
                  ELSE IF cur = 0
                  THEN parse_lines(rest,
                                   Append(files, [source_file |-> source_file,
                                                  target_file |-> name,
                                                  hunks |-> <<>>]),
                                   Len(files) + 1, source_file, FALSE)
                  ELSE parse_lines(rest, files, cur, source_file, info)
             ELSE IF fields # <<>>
             THEN IF cur = 0
                  THEN [error |-> "Unexpected hunk found", files |-> files]
                  ELSE LET h == Hunk(fields)
                           body == parse_hunk_body(rest, h.source_start, h.target_start,
                                                   h.source_start + h.source_length,
                                                   h.target_start + h.target_length)
                       IN  IF body.error # None
                           THEN [error |-> body.error, files |-> files]
                           ELSE parse_lines(body.rest,
                                            [files EXCEPT ![cur].hunks = Append(@, h)],
                                            cur, source_file, FALSE)
             ELSE IF StartsWith(line, <<"\\">>)
             THEN IF cur = 0
                  THEN [error |-> "Unexpected marker", files |-> files]
                  ELSE parse_lines(rest, files, cur, source_file, info)
             ELSE IF line = <<NL>> /\ cur # 0
             THEN parse_lines(rest, files, cur, source_file, info)
             ELSE IF info
             THEN parse_lines(rest, files, cur, source_file, TRUE)
             ELSE parse_lines(rest, files, 0, source_file, TRUE)

\* PatchSet(unified_diff): the patched files, or the UnidiffParseError raised
PatchSet(lines) == parse_lines(lines, <<>>, 0, <<>>, FALSE)

----------------------------------------------------------------------------
(* FuncLevelDiffGenerator.get_diff_changed_lines, get_a_and_b_paths *)

Raised(e) == [status |-> "raised", error |-> e, source_ranges |-> <<>>, target_ranges |-> <<>>]

DiffRanges(source_ranges, target_ranges) ==
    [status |-> "returned", error |-> None,
     source_ranges |-> source_ranges, target_ranges |-> target_ranges]

\* (source_start, source_start + hunk.source_length - 1)
source_range(h) == <<h.source_start, h.source_start + h.source_length - 1>>

\* (target_start, target_start + hunk.target_length - 1)
target_range(h) == <<h.target_start, h.target_start + h.target_length - 1>>

\* a source range for every hunk, whatever its source length
source_ranges_unguarded(hs) == [k \in 1..Len(hs) |-> source_range(hs[k])]

\* the loop over the hunks of patch_set[0]
source_ranges_of(hs) ==
    LET kept == SelectSeq(hs, LAMBDA h : h.source_length > 0)
    IN  [k \in 1..Len(kept) |-> source_range(kept[k])]

target_ranges_of(hs) ==
    LET kept == SelectSeq(hs, LAMBDA h : h.target_length > 0)
    IN  [k \in 1..Len(kept) |-> target_range(kept[k])]

\* get_diff_changed_lines: `except Exception as e: raise e` hands every error
\* of the parser on to the caller
get_diff_changed_lines(lines) ==
    LET patch_set == PatchSet(lines)
    IN  IF patch_set.error # None THEN Raised(patch_set.error)
        ELSE IF patch_set.files = <<>> THEN DiffRanges(<<>>, <<>>)
        ELSE LET patch == patch_set.files[1]
             IN  DiffRanges(source_ranges_of(patch.hunks), target_ranges_of(patch.hunks))

\* get_a_and_b_paths: (a_path, b_path) of patch_set[0]; the caller runs it
\* after get_diff_changed_lines has parsed the same text without error
get_a_and_b_paths(lines) ==
    LET patch_set == PatchSet(lines)
    IN  IF patch_set.files = <<>> THEN <<DevNull, DevNull>>
        ELSE LET patch == patch_set.files[1]
             IN  <<IF patch.source_file # <<>> THEN patch.source_file ELSE DevNull,
                   IF patch.target_file # <<>> THEN patch.target_file ELSE DevNull>>

----------------------------------------------------------------------------
(* Specification of get_diff_changed_lines *)

\* what reaches the parser: the file diff as built ("intact"), the hunk text
\* alone without the two file headers ("no_header"), the file diff cut off
\* before its last line ("truncated"), or text that is no diff ("no_diff")
Forms == {"intact", "no_header", "truncated", "no_diff"}

diff_text_of(hs, form) ==
    LET whole == full_diff(SrcPath, TgtPath, render_hunks(hs))
    IN  CASE form = "intact" -> whole
          [] form = "no_header" -> render_hunks(hs)
          [] form = "truncated" -> SubSeq(whole, 1, Len(whole) - 1)
          [] form = "no_diff" -> Repeat(<<"B", "i", "n", "a", "r", "y", NL>>, Len(hs))

RangesInit ==
    /\ pc = "ranges"
    /\ \E shapes \in SeqsUpTo(HunkShapes, MaxHunks), gap \in {0, 1}, form \in Forms :
          /\ hunks = [form |-> form, list |-> PlaceHunks(shapes, gap, 0, 0)]
          /\ unified_diff = diff_text_of(hunks.list, form)
    /\ ranges_out = NoRanges
    /\ SynthIdle /\ OverlapIdle /\ FileIdle /\ CommitIdle /\ parsers = {} /\ ScanIdle /\ HandleIdle /\ CloneIdle /\ TeardownIdle /\ AccessIdle /\ AstIdle /\ FormatIdle /\ MainIdle

GetDiffChangedLines ==
    /\ pc = "ranges"
    /\ ranges_out' = get_diff_changed_lines(unified_diff)
    /\ pc' = IF ranges_out'.status = "raised" THEN "ranges_raised" ELSE "ranges_done"
    /\ UNCHANGED <<pre_text, post_text, paths, diff, func_diff, hunks, unified_diff,
                   span, changed, overlap_out, pre_file, post_file, file_diff,
                   file_path, affected, repo, available, commit, depth, parsers, outcome,
                   scan_result, files_changed, interesting,
                   language_configs, requested, loads, calls,
                   repo_cache, env, cache_dir, temp_dir, git_log, repo_path, cleanup_repo, clone_out,
                   self_repo, cleanups, response,
                   blob_index, changed_out, diffs_out, file_out,
                   ast_file, ast_config, functions,
                   vulnerabilities, format_out,
                   cve_ids, checkpoint_frequency, processed_results, checkpointer, checkpoint_files, final_saved>>

RangesNext == GetDiffChangedLines

RangesSpec == RangesInit /\ [][RangesNext]_vars

----------------------------------------------------------------------------
(* Claims about get_diff_changed_lines *)

RECURSIVE HeaderRanges(_, _)
\* for the hunks hs in order, (start, start + length - 1) of the given side
\* of each hunk whose length on that side is not 0
HeaderRanges(hs, side) ==
    IF hs = <<>> THEN <<>>
    ELSE LET h == Head(hs)
             start == IF side = "source" THEN h.source_start ELSE h.target_start
             length == IF side = "source" THEN h.source_length ELSE h.target_length
         IN  (IF length # 0 THEN <<<<start, start + length - 1>>>> ELSE <<>>)
             \o HeaderRanges(Tail(hs), side)

InSeq(x, seq) == \E i \in 1..Len(seq) : seq[i] = x

\* the hunk h of the file diff has put its source (target) range into the result
ContributesSource(h) ==
    InSeq(<<h.source_start, h.source_start + h.source_length - 1>>, ranges_out.source_ranges)
ContributesTarget(h) ==
    InSeq(<<h.target_start, h.target_start + h.target_length - 1>>, ranges_out.target_ranges)

Parsed == pc = "ranges_done" /\ hunks.form = "intact"

\* C6: for the hunks of the file diff in order, the source range
\* (source_start, source_start + source_length - 1) is emitted iff source_length
\* is not 0 and the target range likewise; every emitted range has s <= e and
\* nothing else is emitted; a diff as the repository renders it is parsed
\* without an error.
C6_RangesFromHeaders ==
    (hunks.form = "intact" /\ pc \in {"ranges_done", "ranges_raised"}) =>
        /\ pc = "ranges_done"
        /\ ranges_out.source_ranges = HeaderRanges(hunks.list, "source")
        /\ ranges_out.target_ranges = HeaderRanges(hunks.list, "target")
        /\ \A r \in {ranges_out.source_ranges[i] : i \in 1..Len(ranges_out.source_ranges)}
                \cup {ranges_out.target_ranges[i] : i \in 1..Len(ranges_out.target_ranges)} :
              r[1] <= r[2]

\* C6 witness: a file diff of two hunks has been parsed; one hunk has source
\* length 0 and the other has a one-line side, written without its length.
C6_Witness ==
    /\ Parsed
    /\ Len(hunks.list) = 2
    /\ hunks.list[1].source_length = 0
    /\ hunks.list[2].source_length = 1
    /\ Len(ranges_out.source_ranges) = 1
    /\ Len(ranges_out.target_ranges) = 2

EmptyOrUnparsable(lines) ==
    lines = <<>> \/ PatchSet(lines).error # None \/ PatchSet(lines).files = <<>>

\* C8: on an empty or unparsable diff text get_diff_changed_lines returns
\* DiffRanges with empty source_ranges and target_ranges and raises no error.
C8_EmptyRangesNoError ==
    (pc \in {"ranges_done", "ranges_raised"} /\ EmptyOrUnparsable(unified_diff)) =>
        /\ ranges_out.status = "returned"
        /\ ranges_out.source_ranges = <<>>
        /\ ranges_out.target_ranges = <<>>

----------------------------------------------------------------------------
(* FuncLevelDiffGenerator.function_overlaps_changes *)

\* the test with the change's first line excluded
overlaps_range_strict(start_line, end_line, r) == start_line <= r[2] /\ end_line > r[1]

\* func_span.start_line <= end_line and func_span.end_line >= start_line
overlaps_range(start_line, end_line, r) == start_line <= r[2] /\ end_line >= r[1]

RECURSIVE function_overlaps_changes(_, _, _)
\* the loop over changed_ranges: True at the first range that overlaps
function_overlaps_changes(start_line, end_line, changed_ranges) ==
    IF changed_ranges = <<>> THEN FALSE
    ELSE IF overlaps_range(start_line, end_line, Head(changed_ranges)) THEN TRUE
    ELSE function_overlaps_changes(start_line, end_line, Tail(changed_ranges))

\* the (start, end) pairs of 1-based lines with start <= end
LineRanges == {r \in (1..MaxLineNo) \X (1..MaxLineNo) : r[1] <= r[2]}

OverlapInit ==
    /\ pc = "overlap"
    /\ span \in LineRanges
    /\ changed \in SeqsUpTo(LineRanges, MaxRanges)
    /\ overlap_out = FALSE
    /\ SynthIdle /\ RangesIdle /\ FileIdle /\ CommitIdle /\ parsers = {} /\ ScanIdle /\ HandleIdle /\ CloneIdle /\ TeardownIdle /\ AccessIdle /\ AstIdle /\ FormatIdle /\ MainIdle

FunctionOverlapsChanges ==
    /\ pc = "overlap"
    /\ overlap_out' = function_overlaps_changes(span[1], span[2], changed)
    /\ pc' = "overlap_done"
    /\ UNCHANGED <<pre_text, post_text, paths, diff, func_diff, hunks, unified_diff,
                   ranges_out, span, changed, pre_file, post_file, file_diff,
                   file_path, affected, repo, available, commit, depth, parsers, outcome,
                   scan_result, files_changed, interesting,
                   language_configs, requested, loads, calls,
                   repo_cache, env, cache_dir, temp_dir, git_log, repo_path, cleanup_repo, clone_out,
                   self_repo, cleanups, response,
                   blob_index, changed_out, diffs_out, file_out,
                   ast_file, ast_config, functions,
                   vulnerabilities, format_out,
                   cve_ids, checkpoint_frequency, processed_results, checkpointer, checkpoint_files, final_saved>>

OverlapNext == FunctionOverlapsChanges

OverlapSpec == OverlapInit /\ [][OverlapNext]_vars

\* the lines start..end, as a set
LinesOf(r) == r[1]..r[2]

\* C5: function_overlaps_changes is true iff some range (start, end) has
\* span.start_line <= end and span.end_line >= start, that is iff the span and
\* some range share a line; it is false for no ranges, and the order of the
\* ranges does not matter.
C5_OverlapIffSharedLine ==
    pc = "overlap_done" =>
        /\ overlap_out = (\E i \in 1..Len(changed) :
                             span[1] <= changed[i][2] /\ span[2] >= changed[i][1])
        /\ overlap_out = (\E i \in 1..Len(changed) : LinesOf(span) \cap LinesOf(changed[i]) # {})
        /\ changed = <<>> => ~overlap_out
        /\ \A perm \in [1..Len(changed) -> 1..Len(changed)] :
              (\A i, j \in 1..Len(changed) : perm[i] = perm[j] => i = j)
              => function_overlaps_changes(span[1], span[2],
                                           [i \in 1..Len(changed) |-> changed[perm[i]]])
                 = overlap_out

\* C5 witness: the span touches only the second of two ranges, in its last
\* line alone.
C5_Witness ==
    /\ pc = "overlap_done"
    /\ Len(changed) = 2
    /\ span[2] < changed[1][1]
    /\ span[2] = changed[2][2]
    /\ span[1] < span[2]
    /\ changed[2][1] = changed[2][2]
    /\ overlap_out

----------------------------------------------------------------------------
(* Source files and their syntax trees (tree-sitter) *)

\* a token of the source text: a node without children, one character long
Leaf(type, token) == [type |-> type, token |-> token, joint |-> "", children |-> <<>>]

\* a node with children; every child starts a new line
Node(type, children) == [type |-> type, token |-> "", joint |-> NL, children |-> children]

\* a node whose children stand on one line, a space between them
InlineNode(type, children) ==
    [type |-> type, token |-> "", joint |-> " ", children |-> children]

RECURSIVE node_text(_), children_text(_, _)
\* the source text a node spans
node_text(node0) ==
    Only({IF node.children = <<>> THEN <<node.token>>
          ELSE children_text(node.children, node.joint) :
          node \in {node0}})

\* the children of a node, the joint of the node between them
children_text(children0, joint) ==
    Only({Concat([k \in 1..Len(children) |->
                     (IF k = 1 THEN <<>> ELSE <<joint>>) \o node_text(children[k])]) :
          children \in {children0}})

RECURSIVE parse_node(_, _)
\* the node with its byte range, starting at byte `start`
parse_node(node0, start0) ==
    Only({[type |-> node.type,
           start_byte |-> start,
           end_byte |-> start + Len(node_text(node)),
           children |->
               [k \in 1..Len(node.children) |->
                   parse_node(node.children[k],
                              IF k = 1 THEN start
                              ELSE start + Len(children_text(SubSeq(node.children, 1, k - 1),
                                                             node.joint))
                                   + 1)]] :
          node \in {node0}, start \in {start0}})

\* the text of a source file made of the given top-level nodes
file_text(items) ==
    IF items = <<>> THEN <<>> ELSE node_text(Node("module", items)) \o <<NL>>

\* parser.parse(bytes(text, 'utf8')).root_node for that file
root_node(items) ==
    IF items = <<>>
    THEN [type |-> "module", start_byte |-> 0, end_byte |-> 0, children |-> <<>>]
    ELSE parse_node(Node("module", items), 0)

\* a source file: its text and the tree the parser builds from it
SourceFile(items) == [text |-> file_text(items), root_node |-> root_node(items)]

\* a function definition: its name and, on the next line, its body
FunctionNode(name, body) ==
    Node("function_definition",
         <<Leaf("identifier", name), Leaf("expression_statement", body)>>)

\* a Go function declaration: its name and, on the next line, its block
GoFunctionNode(name, body) ==
    Node("function_declaration", <<Leaf("identifier", name), Leaf("block", body)>>)

FunctionNodes == {FunctionNode("f", "x"), FunctionNode("f", "y"), FunctionNode("g", "x")}

\* a class definition: its name and, on the next lines, a method
ClassNodes == {Node("class_definition", <<Leaf("identifier", "C"), FunctionNode("f", "x")>>)}

\* the top-level nodes of the modelled files
TopLevelNodes == FunctionNodes \cup ClassNodes \cup {Leaf("expression_statement", "x")}

\* a function definition on one line: `def`, its name and its statement
OneLineFunction(name, body) ==
    InlineNode("function_definition",
               <<Leaf("def", "d"), Leaf("identifier", name), Leaf("return_statement", body)>>)

\* the files with the one-line function f and nothing else
OneLineFiles == {SourceFile(<<OneLineFunction("f", body)>>) : body \in {"1", "2"}}

SourceFiles ==
    {SourceFile(items) : items \in SeqsUpTo(TopLevelNodes, MaxItems)} \cup OneLineFiles

RECURSIVE Parenthesized(_)
\* an expression inside `levels` pairs of parentheses, one token per line
Parenthesized(levels) ==
    IF levels = 0 THEN Leaf("integer", "1")
    ELSE Node("parenthesized_expression",
              <<Leaf("(", "("), Parenthesized(levels - 1), Leaf(")", ")")>>)

\* a statement whose expression is nested `levels` deep
NestedStatement(levels) == Node("expression_statement", <<Parenthesized(levels)>>)

----------------------------------------------------------------------------
(* LanguageConfig, _detect_file_language, _get_language_config *)

LanguageConfig_python ==
    [name |-> "python",
     function_node_types |-> {"function_definition", "async_function_definition"},
     class_node_types |-> {"class_definition"},
     identifier_node_type |-> "identifier",
     qualified_name_separator |-> <<".">>]

LanguageConfig_javascript ==
    [name |-> "javascript",
     function_node_types |-> {"function_declaration", "function_expression", "arrow_function", "method_definition"},
     class_node_types |-> {"class_declaration"},
     identifier_node_type |-> "identifier",
     qualified_name_separator |-> <<".">>]

LanguageConfig_java ==
    [name |-> "java",
     function_node_types |-> {"method_declaration", "constructor_declaration"},
     class_node_types |-> {"class_declaration", "interface_declaration"},
     identifier_node_type |-> "identifier",
     qualified_name_separator |-> <<".">>]

LanguageConfig_c_cpp ==
    [name |-> "c_and_cpp",
     function_node_types |-> {"function_definition", "function_declarator"},
     class_node_types |-> {"class_specifier", "struct_specifier"},
     identifier_node_type |-> "identifier",
     qualified_name_separator |-> <<":", ":">>]

LanguageConfig_csharp ==
    [name |-> "csharp",
     function_node_types |-> {"method_declaration", "constructor_declaration"},
     class_node_types |-> {"class_declaration", "interface_declaration", "struct_declaration"},
     identifier_node_type |-> "identifier",
     qualified_name_separator |-> <<".">>]

LanguageConfig_rust ==
    [name |-> "rust",
     function_node_types |-> {"function_item"},
     class_node_types |-> {"struct_item", "enum_item", "impl_item"},
     identifier_node_type |-> "identifier",
     qualified_name_separator |-> <<":", ":">>]

LanguageConfig_go ==
    [name |-> "go",
     function_node_types |-> {"function_declaration", "method_declaration"},
     class_node_types |-> {"type_declaration"},
     identifier_node_type |-> "identifier",
     qualified_name_separator |-> <<".">>]

\* str.lower() over the letters of the modelled paths
lower(text) ==
    [k \in 1..Len(text) |->
        CASE text[k] = "M" -> "m"
          [] text[k] = "P" -> "p"
          [] text[k] = "Y" -> "y"
          [] OTHER -> text[k]]

\* os.path.basename: what follows the last slash
basename(path) ==
    Only({SubSeq(path, IF slashes = {} THEN 1 ELSE 1 + Max_of(slashes), Len(path)) :
          slashes \in {{i \in 1..Len(path) : path[i] = "/"}}})

\* os.path.splitext(path)[1]: the extension from the last dot of the base
\* name on, unless only dots precede it
splitext(path) ==
    Only({IF dots = {} \/ \A i \in 1..Max_of(dots \cup {1}) : base[i] = "."
          THEN <<>>
          ELSE SubSeq(base, Max_of(dots), Len(base)) :
          base \in {basename(path)},
          dots \in {{i \in 1..Len(basename(path)) : basename(path)[i] = "."}}})

extension_to_language ==
    {
     <<<<".", "p", "y">>, "python">>,
     <<<<".", "p", "y", "i">>, "python">>,
     <<<<".", "p", "y", "x">>, "python">>,
     <<<<".", "p", "x", "i">>, "python">>,
     <<<<".", "j", "s">>, "javascript">>,
     <<<<".", "j", "s", "x">>, "javascript">>,
     <<<<".", "t", "s">>, "typescript">>,
     <<<<".", "t", "s", "x">>, "typescript">>,
     <<<<".", "m", "j", "s">>, "javascript">>,
     <<<<".", "j", "a", "v", "a">>, "java">>,
     <<<<".", "c">>, "c">>,
     <<<<".", "c", "p", "p">>, "cpp">>,
     <<<<".", "c", "c">>, "cpp">>,
     <<<<".", "c", "x", "x">>, "cpp">>,
     <<<<".", "c", "+", "+">>, "cpp">>,
     <<<<".", "h">>, "c">>,
     <<<<".", "h", "p", "p">>, "cpp">>,
     <<<<".", "h", "x", "x">>, "cpp">>,
     <<<<".", "h", "+", "+">>, "cpp">>,
     <<<<".", "c", "s">>, "c_sharp">>,
     <<<<".", "r", "s">>, "rust">>,
     <<<<".", "g", "o">>, "go">>
    }

\* None in place of a LanguageConfig
NoConfig ==
    [name |-> None,
     function_node_types |-> {},
     class_node_types |-> {},
     identifier_node_type |-> None,
     qualified_name_separator |-> <<>>]

\* _detect_file_language: extension_to_language.get(ext)
detect_file_language(path) ==
    Only({IF \E e \in extension_to_language : e[1] = ext
          THEN (CHOOSE e \in extension_to_language : e[1] = ext)[2]
          ELSE None :
          ext \in {splitext(lower(path))}})

\* _get_language_config: language_mapping, then config_methods
get_language_config(language) ==
    CASE language = "python" -> LanguageConfig_python
      [] language \in {"javascript", "typescript"} -> LanguageConfig_javascript
      [] language = "java" -> LanguageConfig_java
      [] language \in {"c", "cpp"} -> LanguageConfig_c_cpp
      [] language = "c_sharp" -> LanguageConfig_csharp
      [] language = "rust" -> LanguageConfig_rust
      [] language = "go" -> LanguageConfig_go
      [] OTHER -> NoConfig

----------------------------------------------------------------------------
(* The paths of the modelled files *)

\* m.py, M.PY and m.txt
FilePaths == {<<"m", ".", "p", "y">>, <<"M", ".", "P", "Y">>, <<"m", ".", "t", "x", "t">>}

\* m.go, m.py, m.txt, n.py and tests/m.py, in the order a diff lists them
RepoPaths ==
    << <<"m", ".", "g", "o">>,
       <<"m", ".", "p", "y">>,
       <<"m", ".", "t", "x", "t">>,
       <<"n", ".", "p", "y">>,
       <<"t", "e", "s", "t", "s", "/", "m", ".", "p", "y">> >>

\* tests/m.py, tests/m.go, tests/m.cs and tests/m.txt
TestPaths ==
    {<<"t", "e", "s", "t", "s", "/", "m", ".", "p", "y">>,
     <<"t", "e", "s", "t", "s", "/", "m", ".", "g", "o">>,
     <<"t", "e", "s", "t", "s", "/", "m", ".", "c", "s">>,
     <<"t", "e", "s", "t", "s", "/", "m", ".", "t", "x", "t">>}

----------------------------------------------------------------------------
(* ignore_patterns, ignore_file_patterns, _matches_ignore_patterns *)

\* fnmatch.fnmatch(name, pat) for patterns of literal characters, `?` and
\* `*`: a `*` matches any text, slashes included.  matches[i, j] says that
\* the name from its i-th character on matches the pattern from its j-th on.
fnmatch(name, pat) ==
    LET matches[i \in 1..(Len(name) + 1), j \in 1..(Len(pat) + 1)] ==
            IF j > Len(pat) THEN i > Len(name)
            ELSE IF pat[j] = "*"
            THEN \E k \in i..(Len(name) + 1) : matches[k, j + 1]
            ELSE /\ i <= Len(name)
                 /\ pat[j] \in {"?", name[i]}
                 /\ matches[i + 1, j + 1]
    IN  matches[1, 1]

\* ignore_patterns["python"]
ignore_patterns_python ==
    {<<"d", "o", "c", "s", "/", "*", "*">>,
     <<"d", "o", "c", "/", "*", "*">>,
     <<"d", "o", "c", "u", "m", "e", "n", "t", "a", "t", "i", "o", "n", "/", "*", "*">>,
     <<"*", "*", "/", "d", "o", "c", "s", "/", "*", "*">>,
     <<"*", "*", "/", "d", "o", "c", "/", "*", "*">>,
     <<"*", "*", "/", "d", "o", "c", "u", "m", "e", "n", "t", "a", "t", "i", "o", "n", "/", "*", "*">>,
     <<".", "g", "i", "t", "h", "u", "b", "/", "*", "*">>,
     <<".", "g", "i", "t", "l", "a", "b", "/", "*", "*">>,
     <<".", "c", "i", "r", "c", "l", "e", "c", "i", "/", "*", "*">>,
     <<"c", "i", "/", "*", "*">>,
     <<"*", "*", "/", "c", "i", "/", "*", "*">>,
     <<"t", "e", "s", "t", "s", "/", "*", "*">>,
     <<"t", "e", "s", "t", "/", "*", "*">>,
     <<"t", "e", "s", "t", "i", "n", "g", "/", "*", "*">>,
     <<"*", "t", "e", "s", "t", "s", "/", "*", "*">>,
     <<"*", "t", "e", "s", "t", "/", "*", "*">>,
     <<"*", "t", "e", "s", "t", "i", "n", "g", "/", "*", "*">>,
     <<"*", "/", "t", "e", "s", "t", "s", "/", "*", "*">>,
     <<"*", "/", "t", "e", "s", "t", "/", "*", "*">>,
     <<"*", "*", "/", "t", "e", "s", "t", "s", "/", "*", "*">>,
     <<"*", "*", "/", "t", "e", "s", "t", "/", "*", "*">>,
     <<"*", "*", "/", "t", "e", "s", "t", "i", "n", "g", "/", "*", "*">>,
     <<"_", "_", "p", "y", "c", "a", "c", "h", "e", "_", "_", "/", "*", "*">>,
     <<"*", "*", "/", "_", "_", "p", "y", "c", "a", "c", "h", "e", "_", "_", "/", "*", "*">>,
     <<"*", ".", "p", "y", "c">>,
     <<"*", "*", "/", "*", ".", "p", "y", "c">>,
     <<"e", "x", "a", "m", "p", "l", "e", "s", "/", "*", "*">>,
     <<"e", "x", "a", "m", "p", "l", "e", "/", "*", "*">>,
     <<"s", "a", "m", "p", "l", "e", "s", "/", "*", "*">>,
     <<"s", "a", "m", "p", "l", "e", "/", "*", "*">>,
     <<"d", "e", "m", "o", "s", "/", "*", "*">>,
     <<"d", "e", "m", "o", "/", "*", "*">>,
     <<"t", "u", "t", "o", "r", "i", "a", "l", "s", "/", "*", "*">>,
     <<"t", "u", "t", "o", "r", "i", "a", "l", "/", "*", "*">>,
     <<"g", "u", "i", "d", "e", "s", "/", "*", "*">>,
     <<"g", "u", "i", "d", "e", "/", "*", "*">>,
     <<"*", "*", "/", "e", "x", "a", "m", "p", "l", "e", "s", "/", "*", "*">>,
     <<"*", "*", "/", "e", "x", "a", "m", "p", "l", "e", "/", "*", "*">>,
     <<"*", "*", "/", "d", "e", "m", "o", "s", "/", "*", "*">>,
     <<"*", "*", "/", "d", "e", "m", "o", "/", "*", "*">>,
     <<"a", "s", "s", "e", "t", "s", "/", "*", "*">>,
     <<"s", "t", "a", "t", "i", "c", "/", "*", "*">>,
     <<"m", "e", "d", "i", "a", "/", "*", "*">>,
     <<"i", "m", "a", "g", "e", "s", "/", "*", "*">>,
     <<"i", "m", "g", "/", "*", "*">>,
     <<"p", "i", "c", "t", "u", "r", "e", "s", "/", "*", "*">>,
     <<"r", "e", "s", "o", "u", "r", "c", "e", "s", "/", "*", "*">>,
     <<"*", "*", "/", "a", "s", "s", "e", "t", "s", "/", "*", "*">>,
     <<"*", "*", "/", "s", "t", "a", "t", "i", "c", "/", "*", "*">>,
     <<"*", "*", "/", "m", "e", "d", "i", "a", "/", "*", "*">>,
     <<"*", "*", "/", "i", "m", "a", "g", "e", "s", "/", "*", "*">>,
     <<"b", "u", "i", "l", "d", "/", "*", "*">>,
     <<"d", "i", "s", "t", "/", "*", "*">>,
     <<"p", "a", "c", "k", "a", "g", "i", "n", "g", "/", "*", "*">>,
     <<"d", "e", "p", "l", "o", "y", "/", "*", "*">>,
     <<"d", "e", "p", "l", "o", "y", "m", "e", "n", "t", "/", "*", "*">>,
     <<"i", "n", "f", "r", "a", "s", "t", "r", "u", "c", "t", "u", "r", "e", "/", "*", "*">>,
     <<"i", "n", "f", "r", "a", "/", "*", "*">>,
     <<"d", "o", "c", "k", "e", "r", "/", "*", "*">>,
     <<"*", "*", "/", "b", "u", "i", "l", "d", "/", "*", "*">>,
     <<"*", "*", "/", "d", "i", "s", "t", "/", "*", "*">>,
     <<"f", "i", "x", "t", "u", "r", "e", "s", "/", "*", "*">>,
     <<"d", "a", "t", "a", "/", "*", "*">>,
     <<"b", "e", "n", "c", "h", "m", "a", "r", "k", "s", "/", "*", "*">>,
     <<"b", "e", "n", "c", "h", "m", "a", "r", "k", "/", "*", "*">>,
     <<"p", "e", "r", "f", "o", "r", "m", "a", "n", "c", "e", "/", "*", "*">>,
     <<"p", "e", "r", "f", "/", "*", "*">>,
     <<"s", "a", "n", "d", "b", "o", "x", "/", "*", "*">>,
     <<"p", "l", "a", "y", "g", "r", "o", "u", "n", "d", "/", "*", "*">>,
     <<"t", "e", "m", "p", "l", "a", "t", "e", "s", "/", "*", "*">>,
     <<"t", "e", "m", "p", "l", "a", "t", "e", "/", "*", "*">>,
     <<"*", "*", "/", "f", "i", "x", "t", "u", "r", "e", "s", "/", "*", "*">>,
     <<"*", "*", "/", "b", "e", "n", "c", "h", "m", "a", "r", "k", "s", "/", "*", "*">>,
     <<"*", "*", "/", "t", "e", "m", "p", "l", "a", "t", "e", "s", "/", "*", "*">>}

\* ignore_file_patterns["python"]
ignore_file_patterns_python ==
    {<<"_", "_", "i", "n", "i", "t", "_", "_", ".", "p", "y">>,
     <<"_", "_", "a", "b", "o", "u", "t", "_", "_", ".", "p", "y">>,
     <<"_", "_", "v", "e", "r", "s", "i", "o", "n", "_", "_", ".", "p", "y">>,
     <<"s", "e", "t", "u", "p", ".", "p", "y">>,
     <<"c", "r", "e", "a", "t", "e", "_", "v", "e", "r", "s", "i", "o", "n", "_", "f", "i", "l", "e", ".", "p", "y">>,
     <<"c", "o", "n", "f", "t", "e", "s", "t", ".", "p", "y">>,
     <<"v", "e", "r", "s", "i", "o", "n", ".", "p", "y">>,
     <<"*", ".", "m", "d">>,
     <<"*", ".", "m", "d", "x">>,
     <<"*", ".", "r", "s", "t">>,
     <<"*", ".", "t", "x", "t">>,
     <<"R", "E", "A", "D", "M", "E", "*">>,
     <<"C", "H", "A", "N", "G", "E", "L", "O", "G", "*">>,
     <<"H", "I", "S", "T", "O", "R", "Y", "*">>,
     <<"N", "E", "W", "S", "*">>,
     <<"*", ".", "i", "n", "i">>,
     <<"*", ".", "c", "f", "g">>,
     <<"*", ".", "c", "o", "n", "f">>,
     <<"*", ".", "t", "o", "m", "l">>,
     <<"*", ".", "j", "s", "o", "n">>,
     <<"*", ".", "x", "m", "l">>,
     <<"*", ".", "y", "m", "l">>,
     <<"*", ".", "y", "a", "m", "l">>,
     <<"*", ".", "e", "n", "v", "*">>,
     <<"*", ".", "t", "e", "m", "p", "l", "a", "t", "e">>,
     <<"*", ".", "p", "r", "o", "p", "e", "r", "t", "i", "e", "s">>,
     <<"*", ".", "h", "c", "l">>,
     <<"*", ".", "i", "n">>,
     <<"*", ".", "l", "o", "c", "k">>,
     <<"P", "i", "p", "f", "i", "l", "e", "*">>,
     <<"p", "o", "e", "t", "r", "y", ".", "l", "o", "c", "k">>,
     <<"r", "e", "q", "u", "i", "r", "e", "m", "e", "n", "t", "s", "*", ".", "t", "x", "t">>,
     <<"*", ".", "l", "o", "g">>,
     <<"*", ".", "c", "s", "v">>,
     <<"*", ".", "t", "s", "v">>,
     <<"*", ".", "d", "a", "t">>,
     <<"*", ".", "s", "q", "l">>,
     <<"*", ".", "p", "n", "g">>,
     <<"*", ".", "j", "p", "g">>,
     <<"*", ".", "j", "p", "e", "g">>,
     <<"*", ".", "g", "i", "f">>,
     <<"*", ".", "s", "v", "g">>,
     <<"*", ".", "i", "c", "o">>,
     <<"*", ".", "b", "m", "p">>,
     <<"*", ".", "t", "i", "f", "f">>,
     <<"*", ".", "w", "e", "b", "p">>,
     <<"*", ".", "p", "d", "f">>,
     <<"*", ".", "d", "o", "c">>,
     <<"*", ".", "d", "o", "c", "x">>,
     <<"*", ".", "z", "i", "p">>,
     <<"*", ".", "t", "a", "r">>,
     <<"*", ".", "g", "z">>,
     <<"*", ".", "t", "g", "z">>,
     <<"*", ".", "r", "a", "r">>,
     <<"*", ".", "7", "z">>,
     <<"*", ".", "b", "a", "t">>,
     <<"*", ".", "s", "h">>,
     <<"*", ".", "p", "s", "1">>,
     <<"*", ".", "b", "i", "n">>,
     <<"*", ".", "e", "x", "e">>,
     <<"*", ".", "d", "l", "l">>,
     <<"*", ".", "s", "o">>,
     <<"*", ".", "d", "y", "l", "i", "b">>,
     <<"V", "E", "R", "S", "I", "O", "N">>,
     <<"A", "U", "T", "H", "O", "R", "S">>,
     <<"L", "I", "C", "E", "N", "S", "E", "*">>,
     <<"C", "O", "P", "Y", "I", "N", "G", "*">>,
     <<"N", "O", "T", "I", "C", "E", "*">>,
     <<"M", "a", "k", "e", "f", "i", "l", "e", "*">>,
     <<"D", "o", "c", "k", "e", "r", "f", "i", "l", "e", "*">>,
     <<"P", "r", "o", "c", "f", "i", "l", "e", "*">>,
     <<".", "g", "i", "t", "i", "g", "n", "o", "r", "e">>,
     <<".", "g", "i", "t", "a", "t", "t", "r", "i", "b", "u", "t", "e", "s">>,
     <<".", "e", "d", "i", "t", "o", "r", "c", "o", "n", "f", "i", "g">>,
     <<".", "p", "y", "l", "i", "n", "t", "r", "c">>,
     <<".", "p", "y", "c", "o", "d", "e", "s", "t", "y", "l", "e">>,
     <<".", "p", "e", "p", "8">>,
     <<".", "b", "a", "n", "d", "i", "t">>,
     <<".", "c", "o", "v", "e", "r", "a", "g", "e", "r", "c">>,
     <<".", "f", "l", "a", "k", "e", "8">>,
     <<".", "d", "o", "c", "k", "e", "r", "i", "g", "n", "o", "r", "e">>}

\* the keys of ignore_patterns, which are the keys of ignore_file_patterns
\* ignore_patterns["go"]
ignore_patterns_go ==
    {<<"b", "i", "n", "/", "*", "*">>,
     <<"p", "k", "g", "/", "*", "*">>,
     <<"*", "*", "/", "b", "i", "n", "/", "*", "*">>,
     <<"*", "*", "/", "p", "k", "g", "/", "*", "*">>,
     <<"d", "o", "c", "s", "/", "*", "*">>,
     <<"d", "o", "c", "/", "*", "*">>,
     <<"*", "*", "/", "d", "o", "c", "s", "/", "*", "*">>,
     <<"*", "*", "/", "d", "o", "c", "/", "*", "*">>,
     <<"*", "_", "t", "e", "s", "t", ".", "g", "o">>,
     <<"*", "*", "/", "*", "_", "t", "e", "s", "t", ".", "g", "o">>,
     <<"v", "e", "n", "d", "o", "r", "/", "*", "*">>,
     <<"*", "*", "/", "v", "e", "n", "d", "o", "r", "/", "*", "*">>}

\* ignore_file_patterns["go"]
ignore_file_patterns_go ==
    {<<"g", "o", ".", "m", "o", "d">>,
     <<"g", "o", ".", "s", "u", "m">>,
     <<"*", ".", "m", "d">>,
     <<"*", ".", "t", "x", "t">>,
     <<"R", "E", "A", "D", "M", "E", "*">>,
     <<"C", "H", "A", "N", "G", "E", "L", "O", "G", "*">>,
     <<"*", ".", "j", "s", "o", "n">>,
     <<"*", ".", "y", "a", "m", "l">>,
     <<"*", ".", "y", "m", "l">>,
     <<"*", ".", "t", "o", "m", "l">>,
     <<"L", "I", "C", "E", "N", "S", "E", "*">>,
     <<".", "g", "i", "t", "i", "g", "n", "o", "r", "e">>,
     <<"M", "a", "k", "e", "f", "i", "l", "e", "*">>}

pattern_languages == {"python", "javascript", "java", "c_and_cpp", "rust", "go"}

\* ignore_patterns[lang]; the modelled paths reach the python and go tables
ignore_patterns(lang) ==
    CASE lang = "python" -> ignore_patterns_python [] lang = "go" -> ignore_patterns_go

\* ignore_file_patterns[lang]
ignore_file_patterns(lang) ==
    CASE lang = "python" -> ignore_file_patterns_python
      [] lang = "go" -> ignore_file_patterns_go

\* filepath.replace('\\', '/')
normalized_path(filepath) ==
    [k \in 1..Len(filepath) |-> IF filepath[k] = "\\" THEN "/" ELSE filepath[k]]

\* '/'.join(parts[:i+1]) + '/' for every i
partial_paths(path) ==
    {SubSeq(path, 1, j - 1) \o <<"/">> :
     j \in {i \in 1..Len(path) : path[i] = "/"} \cup {Len(path) + 1}}

\* _matches_ignore_patterns(filepath, lang)
matches_ignore_patterns(filepath, lang) ==
    IF lang \notin pattern_languages THEN FALSE
    ELSE Only({\/ \E pattern \in ignore_patterns(lang) :
                     \/ fnmatch(path, pattern)
                     \/ \E partial_path \in partial_paths(path) :
                           fnmatch(partial_path, pattern)
               \/ \E pattern \in ignore_file_patterns(lang) :
                     fnmatch(basename(path), pattern) \/ fnmatch(path, pattern) :
               path \in {normalized_path(filepath)}})

\* _matches_ignore_patterns over the modelled paths, worked out once
ignored_paths ==
    UNION {IF matches_ignore_patterns(path, lang) THEN {<<path, lang>>} ELSE {} :
           path \in FilePaths \cup SetOf(RepoPaths) \cup TestPaths,
           lang \in {"python", "go", "csharp"}}

\* the answer of _matches_ignore_patterns(filepath, lang), looked up
is_ignored(filepath, lang) == <<filepath, lang>> \in ignored_paths

----------------------------------------------------------------------------
(* FuncLevelDiffGenerator.extract_functions_from_ast *)

\* None in place of a name; an identifier is never the empty text
NoName == <<>>

FunctionSpan(name, start_byte, end_byte, start_line, end_line, class_name, separator) ==
    [name |-> name, start_byte |-> start_byte, end_byte |-> end_byte,
     start_line |-> start_line, end_line |-> end_line,
     class_name |-> class_name, qualified_name_separator |-> separator]

\* FunctionSpan.qualified_name
qualified_name(func) ==
    IF func.class_name # NoName
    THEN func.class_name \o func.qualified_name_separator \o func.name
    ELSE func.name

RECURSIVE find_identifier_recursive(_, _, _)
\* the first identifier of the subtree of n, in document order
find_identifier_recursive(n0, text, language_config) ==
    Only({IF n.type = language_config.identifier_node_type
          THEN Slice(text, n.start_byte, n.end_byte)
          ELSE Only({IF \E k \in DOMAIN found : found[k] # NoName
                     THEN found[Min_of({k \in DOMAIN found : found[k] # NoName})]
                     ELSE NoName :
                     found \in {[k \in 1..Len(n.children) |->
                                    find_identifier_recursive(n.children[k], text,
                                                              language_config)]}}) :
          n \in {n0}})

\* _find_identifier_in_node: a direct identifier child, else the first
\* identifier anywhere below the node
find_identifier_in_node(node, text, language_config) ==
    Only({IF direct # {}
          THEN Slice(text, node.children[Min_of(direct)].start_byte,
                     node.children[Min_of(direct)].end_byte)
          ELSE find_identifier_recursive(node, text, language_config) :
          direct \in {{k \in 1..Len(node.children) :
                          node.children[k].type = language_config.identifier_node_type}}})

\* text[:byte].count('\n') + 1
line_of(text, byte) == Cardinality({i \in 1..byte : text[i] = NL}) + 1

RECURSIVE extract_from_node_descending(_, _, _, _)
\* the walk goes on below a node that is a function
extract_from_node_descending(node0, class_name0, text, language_config) ==
    Only({(IF node.type \in language_config.function_node_types
           THEN Only({IF func_name # NoName
                      THEN <<FunctionSpan(func_name, node.start_byte, node.end_byte,
                                          line_of(text, node.start_byte),
                                          line_of(text, node.end_byte),
                                          class_name,
                                          language_config.qualified_name_separator)>>
                      ELSE <<>> :
                      func_name \in {find_identifier_in_node(node, text, language_config)}})
           ELSE <<>>)
          \o Concat([k \in 1..Len(node.children) |->
                        extract_from_node_descending(node.children[k], class_name, text,
                                                     language_config)]) :
          node \in {node0}, class_name \in {class_name0}})

RECURSIVE extract_from_node(_, _, _, _)
\* extract_from_node(node, class_name): the spans appended to `functions`
extract_from_node(node0, class_name0, text, language_config) ==
    Only({IF node.type \in language_config.function_node_types
          THEN Only({IF func_name # NoName
                     THEN <<FunctionSpan(func_name, node.start_byte, node.end_byte,
                                         line_of(text, node.start_byte),
                                         line_of(text, node.end_byte),
                                         class_name,
                                         language_config.qualified_name_separator)>>
                     ELSE <<>> :
                     func_name \in {find_identifier_in_node(node, text, language_config)}})
          ELSE IF node.type \in language_config.class_node_types
          THEN Only({Concat([k \in 1..Len(node.children) |->
                                extract_from_node(node.children[k], class_name_for_methods,
                                                  text, language_config)]) :
                     class_name_for_methods \in
                         {find_identifier_in_node(node, text, language_config)}})
          ELSE Concat([k \in 1..Len(node.children) |->
                          extract_from_node(node.children[k], class_name, text,
                                            language_config)]) :
          node \in {node0}, class_name \in {class_name0}})

\* extract_functions_from_ast(text, parser, language_config), the parser
\* having built the tree `tree` from the text
extract_functions_from_ast(text0, tree, language_config) ==
    Only({extract_from_node(tree, NoName, text, language_config) : text \in {text0}})

RECURSIVE search_depth(_, _, _)
\* the calls of find_identifier_recursive nested inside one another when it
\* is called on n: the search goes no further than the first identifier
search_depth(n0, text, language_config) ==
    Only({IF n.type = language_config.identifier_node_type \/ n.children = <<>> THEN 1
          ELSE Only({1 + Max_of({search_depth(n.children[k], text, language_config) :
                                    k \in 1..(IF holders = {} THEN Len(n.children)
                                              ELSE Min_of(holders))}) :
                     holders \in
                         {{k \in 1..Len(n.children) :
                              find_identifier_recursive(n.children[k], text,
                                                        language_config) # NoName}}}) :
          n \in {n0}})

\* the calls nested inside one another below a call of _find_identifier_in_node
identifier_depth(node, text, language_config) ==
    IF \E k \in 1..Len(node.children) :
           node.children[k].type = language_config.identifier_node_type
    THEN 1
    ELSE 1 + search_depth(node, text, language_config)

RECURSIVE call_depth(_, _, _)
\* the calls nested inside one another when extract_from_node is called on
\* a node, that call included
call_depth(node0, text, language_config) ==
    Only({IF node.type \in language_config.function_node_types
          THEN 1 + identifier_depth(node, text, language_config)
          ELSE Max_of({1} \cup {1 + call_depth(node.children[k], text, language_config) :
                                   k \in 1..Len(node.children)}
                          \cup (IF node.type \in language_config.class_node_types
                                THEN {1 + identifier_depth(node, text, language_config)}
                                ELSE {})) :
          node \in {node0}})

\* the interpreter ends a call nested deeper than its recursion limit with a
\* RecursionError: extract_functions_from_ast raises it for such a tree
raises_recursion_error(text, tree, language_config) ==
    call_depth(tree, text, language_config) > RecursionLimit

----------------------------------------------------------------------------
(* FuncLevelDiffGenerator.extract_function_diffs_from_file_diff *)

Whitespace == {" ", NL}

\* str.strip(): the text without its leading and trailing whitespace
strip(text) ==
    Only({IF keep = {} THEN <<>> ELSE SubSeq(text, Min_of(keep), Max_of(keep)) :
          keep \in {{i \in 1..Len(text) : text[i] \notin Whitespace}}})

\* text[func.start_byte:func.end_byte]
function_text(text, func) == Slice(text, func.start_byte, func.end_byte)

\* an entry of affected_functions, with the two texts its diff was made from
FunctionDiff(func_name, func_diff0, pre_func_text, post_func_text) ==
    [func_name |-> func_name, contextualized_changes |-> func_diff0,
     pre_func_text |-> pre_func_text, post_func_text |-> post_func_text]

\* the entry for one function, blank diff or not
function_record_unfiltered(func_name, pre_func_text, post_func_text, a_path, b_path) ==
    <<FunctionDiff(func_name,
                   generate_function_unified_diff(pre_func_text, post_func_text,
                                                  a_path, b_path),
                   pre_func_text, post_func_text)>>

\* the entry for one function, unless its diff is blank
function_record(func_name, pre_func_text, post_func_text, a_path, b_path) ==
    Only({IF strip(text) # <<>>
          THEN <<FunctionDiff(func_name, text, pre_func_text, post_func_text)>>
          ELSE <<>> :
          text \in {generate_function_unified_diff(pre_func_text, post_func_text,
                                                   a_path, b_path)}})

\* no post-image function is ever found
post_func_missing(post_functions, name) == 0

\* post_func_map.get(name): the index of the last post-image function of
\* that qualified name, 0 for None
post_func_lookup(post_functions, name) ==
    Only({IF hits = {} THEN 0 ELSE Max_of(hits) :
          hits \in {{k \in 1..Len(post_functions) :
                        qualified_name(post_functions[k]) = name}}})

\* every post-image function counts as new
is_new_function_always(post_func, pre_func_names) == TRUE

\* post_func.qualified_name not in pre_func_names
is_new_function(post_func, pre_func_names) ==
    qualified_name(post_func) \notin pre_func_names

\* the loop over pre_functions
pre_function_records(pre_text0, post_text0, pre_functions, post_functions, ranges, a_path, b_path) ==
    Concat([i \in 1..Len(pre_functions) |->
        IF function_overlaps_changes(pre_functions[i].start_line, pre_functions[i].end_line,
                                     ranges)
        THEN Only({function_record(qualified_name(pre_functions[i]),
                                   function_text(pre_text0, pre_functions[i]),
                                   IF k # 0 THEN function_text(post_text0, post_functions[k])
                                   ELSE <<>>,
                                   a_path, b_path) :
                   k \in {post_func_lookup(post_functions,
                                           qualified_name(pre_functions[i]))}})
        ELSE <<>>])

\* the loop over post_functions
post_function_records(post_text0, pre_functions, post_functions, ranges, a_path, b_path) ==
    Only({Concat([i \in 1..Len(post_functions) |->
              IF /\ is_new_function(post_functions[i], pre_func_names)
                 /\ function_overlaps_changes(post_functions[i].start_line,
                                              post_functions[i].end_line, ranges)
              THEN function_record(qualified_name(post_functions[i]), <<>>,
                                   function_text(post_text0, post_functions[i]),
                                   a_path, b_path)
              ELSE <<>>]) :
          pre_func_names \in {{qualified_name(pre_functions[i]) :
                                  i \in 1..Len(pre_functions)}}})

Returned(records) == [status |-> "returned", error |-> None, records |-> records]

RaisedError(error) == [status |-> "raised", error |-> error, records |-> <<>>]

\* the records of the added functions are put before the others
affected_functions_additions_first(pre_records, post_records) == post_records \o pre_records

\* affected_functions once both loops have appended to it: the records of
\* the loop over pre_functions, then those of the loop over post_functions
affected_functions(pre_records, post_records) == pre_records \o post_records

\* extract_function_diffs_from_file_diff; `loaded` is self.parsers
extract_function_diffs_from_file_diff(pre_patch, post_patch, file_unified_diff, path, loaded) ==
    Only({IF file_language = None \/ file_language \notin loaded
             \/ get_language_config(file_language).name = None
          THEN Returned(<<>>)
          ELSE Only({IF \/ raises_recursion_error(pre_patch.text, pre_patch.root_node,
                                                  get_language_config(file_language))
                        \/ raises_recursion_error(post_patch.text, post_patch.root_node,
                                                  get_language_config(file_language))
                     THEN RaisedError("RecursionError")
                     ELSE IF diff_ranges.status = "raised"
                     THEN RaisedError(diff_ranges.error)
                     ELSE Returned(
                              affected_functions(
                                  pre_function_records(pre_patch.text, post_patch.text,
                                                       pre_functions, post_functions,
                                                       diff_ranges.source_ranges,
                                                       ab[1], ab[2]),
                                  post_function_records(post_patch.text, pre_functions,
                                                        post_functions,
                                                        diff_ranges.target_ranges,
                                                        ab[1], ab[2]))) :
                     pre_functions \in
                         {extract_functions_from_ast(pre_patch.text, pre_patch.root_node,
                                                     get_language_config(file_language))},
                     post_functions \in
                         {extract_functions_from_ast(post_patch.text, post_patch.root_node,
                                                     get_language_config(file_language))},
                     diff_ranges \in {get_diff_changed_lines(splitlines(file_unified_diff))},
                     ab \in {get_a_and_b_paths(splitlines(file_unified_diff))}}) :
          file_language \in {detect_file_language(path)}})

----------------------------------------------------------------------------
(* Specification of extract_function_diffs_from_file_diff *)

\* the diff of one changed file as get_changed_files_with_diffs hands it on:
\* the two header lines, then the hunks with `context` lines around each change
changed_file_diff(pre_text0, post_text0, path, context) ==
    Concat(difflib_unified_diff(splitlines(pre_text0), splitlines(post_text0),
                                <<"a", "/">> \o path, <<"b", "/">> \o path, context))

FileInit ==
    /\ pc = "file"
    /\ pre_file \in SourceFiles
    /\ post_file \in SourceFiles
    /\ file_path \in FilePaths
    /\ parsers \in SUBSET {"python"}
    /\ \E context \in 0..MaxContext :
          file_diff = changed_file_diff(pre_file.text, post_file.text, file_path, context)
    /\ affected = NoRecords
    /\ SynthIdle /\ RangesIdle /\ OverlapIdle /\ CommitIdle /\ ScanIdle /\ HandleIdle /\ CloneIdle /\ TeardownIdle /\ AccessIdle /\ AstIdle /\ FormatIdle /\ MainIdle

ExtractFunctionDiffsFromFileDiff ==
    /\ pc = "file"
    /\ affected' = extract_function_diffs_from_file_diff(pre_file, post_file, file_diff,
                                                         file_path, parsers)
    /\ pc' = IF affected'.status = "raised" THEN "file_raised" ELSE "file_done"
    /\ UNCHANGED <<pre_text, post_text, paths, diff, func_diff, hunks, unified_diff,
                   ranges_out, span, changed, overlap_out, pre_file, post_file, file_diff,
                   file_path, repo, available, commit, depth, parsers, outcome,
                   scan_result, files_changed, interesting,
                   language_configs, requested, loads, calls,
                   repo_cache, env, cache_dir, temp_dir, git_log, repo_path, cleanup_repo, clone_out,
                   self_repo, cleanups, response,
                   blob_index, changed_out, diffs_out, file_out,
                   ast_file, ast_config, functions,
                   vulnerabilities, format_out,
                   cve_ids, checkpoint_frequency, processed_results, checkpointer, checkpoint_files, final_saved>>

FileNext == ExtractFunctionDiffsFromFileDiff

FileSpec == FileInit /\ [][FileNext]_vars

\* the file was of a known language with a loaded parser, and its diff parsed
Processed ==
    /\ pc = "file_done"
    /\ detect_file_language(file_path) = "python"
    /\ "python" \in parsers

PreFunctions ==
    extract_functions_from_ast(pre_file.text, pre_file.root_node, LanguageConfig_python)

PostFunctions ==
    extract_functions_from_ast(post_file.text, post_file.root_node, LanguageConfig_python)

\* the function has a line in one of the ranges
SharesLine(func, ranges) ==
    \E r \in SetOf(ranges) : LinesOf(<<func.start_line, func.end_line>>) \cap LinesOf(r) # {}

FileRanges == get_diff_changed_lines(splitlines(file_diff))

FilePathsOfDiff == get_a_and_b_paths(splitlines(file_diff))

\* the records made from a pre-image function: a function's text is never empty
PreRecords == SelectSeq(affected.records, LAMBDA r : r.pre_func_text # <<>>)

\* the records made from the empty text and a post-image function
AddedRecords == SelectSeq(affected.records, LAMBDA r : r.pre_func_text = <<>>)

\* C3: every record of a pre-image function belongs to a pre-image function
\* that has a line in a source range; its diff is the diff of that function's
\* slice against the slice of a post-image function of the same qualified
\* name if there is one, and against the empty text if there is none; every
\* such pre-image function has its record unless that diff is blank; a
\* record with an empty post text has no function of its name in the
\* post-image.
C3_PreImageMatching ==
    Processed =>
        /\ \A r \in SetOf(PreRecords) :
              /\ \E f \in SetOf(PreFunctions) :
                    /\ SharesLine(f, FileRanges.source_ranges)
                    /\ qualified_name(f) = r.func_name
                    /\ function_text(pre_file.text, f) = r.pre_func_text
              /\ IF \E g \in SetOf(PostFunctions) : qualified_name(g) = r.func_name
                 THEN \E g \in SetOf(PostFunctions) :
                         /\ qualified_name(g) = r.func_name
                         /\ function_text(post_file.text, g) = r.post_func_text
                 ELSE r.post_func_text = <<>>
              /\ r.contextualized_changes =
                     generate_function_unified_diff(r.pre_func_text, r.post_func_text,
                                                    FilePathsOfDiff[1], FilePathsOfDiff[2])
              /\ r.post_func_text = <<>> =>
                     ~ \E g \in SetOf(PostFunctions) : qualified_name(g) = r.func_name
        /\ \A f \in SetOf(PreFunctions) :
              SharesLine(f, FileRanges.source_ranges) =>
                  \/ \E r \in SetOf(PreRecords) :
                        /\ r.func_name = qualified_name(f)
                        /\ r.pre_func_text = function_text(pre_file.text, f)
                  \/ \E g \in SetOf(PostFunctions) :
                        /\ qualified_name(g) = qualified_name(f)
                        /\ splitlines(function_text(post_file.text, g))
                               = splitlines(function_text(pre_file.text, f))

\* C3 witness: one changed function was diffed against its namesake in the
\* post-image, another against the empty text.
C3_Witness ==
    /\ Processed
    /\ \E r \in SetOf(PreRecords) : r.post_func_text # <<>>
    /\ \E r \in SetOf(PreRecords) : r.post_func_text = <<>>

\* C4: the addition records are, in order, one for each post-image function
\* whose qualified name is that of no pre-image function and which has a line
\* in a target range, each the diff of the empty text against the function's
\* slice; so no function reported as added has a namesake in the pre-image.
C4_AdditionsExactlyNew ==
    Processed =>
        LET pre_func_names == {qualified_name(f) : f \in SetOf(PreFunctions)}
            added == SelectSeq(PostFunctions,
                               LAMBDA g : /\ qualified_name(g) \notin pre_func_names
                                          /\ SharesLine(g, FileRanges.target_ranges))
        IN  /\ AddedRecords =
                   [k \in 1..Len(added) |->
                       FunctionDiff(qualified_name(added[k]),
                                    generate_function_unified_diff(
                                        <<>>, function_text(post_file.text, added[k]),
                                        FilePathsOfDiff[1], FilePathsOfDiff[2]),
                                    <<>>, function_text(post_file.text, added[k]))]
            /\ \A r \in SetOf(AddedRecords) : r.func_name \notin pre_func_names

\* C4 witness: a function was reported as added while another post-image
\* function with a line in a target range was not, its name being that of a
\* pre-image function.
C4_Witness ==
    /\ Processed
    /\ AddedRecords # <<>>
    /\ \E g \in SetOf(PostFunctions) :
          /\ SharesLine(g, FileRanges.target_ranges)
          /\ \E f \in SetOf(PreFunctions) : qualified_name(f) = qualified_name(g)

\* the pre-image function has the text of the post-image function that
\* post_func_map holds under its qualified name
SameAsNamesake(f) ==
    Only({/\ k # 0
          /\ function_text(post_file.text, PostFunctions[IF k = 0 THEN 1 ELSE k])
                 = function_text(pre_file.text, f) :
          k \in {post_func_lookup(PostFunctions, qualified_name(f))}})

\* C15: no returned record has a diff that is empty once its whitespace is
\* trimmed; a pre-image function with a line in a source range whose text
\* is that of its namesake in the post-image has no record.
C15_NoBlankDiffRecorded ==
    Processed =>
        /\ \A r \in SetOf(affected.records) : strip(r.contextualized_changes) # <<>>
        /\ \A f \in SetOf(PreFunctions) :
              (SharesLine(f, FileRanges.source_ranges) /\ SameAsNamesake(f)) =>
                  ~ \E r \in SetOf(affected.records) :
                        /\ r.func_name = qualified_name(f)
                        /\ r.pre_func_text = function_text(pre_file.text, f)

\* C15 witness: the call has returned, and a pre-image function with a line
\* in a source range has the same text as its namesake in the post-image.
C15_Witness ==
    /\ Processed
    /\ affected.status = "returned"
    /\ \E f \in SetOf(PreFunctions) :
           SharesLine(f, FileRanges.source_ranges) /\ SameAsNamesake(f)

\* the file held the one-line function f returning 1 and holds the one-line
\* function f returning 2; its diff has a single hunk
OneLineChange ==
    /\ Processed
    /\ pre_file = SourceFile(<<OneLineFunction("f", "1")>>)
    /\ post_file = SourceFile(<<OneLineFunction("f", "2")>>)
    /\ Len(FileRanges.source_ranges) = 1

\* the lines of a function diff after its two header lines
BodyLines(text) == Only({SubSeq(lines, 3, Len(lines)) : lines \in {splitlines(text)}})

\* the lines that begin with the given character
LinesWith(lines, first) == {k \in 1..Len(lines) : lines[k][1] = first}

\* C16 as stated: for the one-line function f changed from returning 1 to
\* returning 2 in a single hunk, the call returns exactly one record, that
\* of f, and after the two header lines its diff has exactly one line that
\* begins with `-` and exactly one that begins with `+`, every other line
\* being the hunk header or a context line.
C16_OneRemovedOneAddedLine ==
    OneLineChange =>
        /\ affected.status = "returned"
        /\ Len(affected.records) = 1
        /\ affected.records[1].func_name = <<"f">>
        /\ Only({/\ Cardinality(LinesWith(body, "-")) = 1
                 /\ Cardinality(LinesWith(body, "+")) = 1
                 /\ \A k \in 1..Len(body) : body[k][1] \in {"-", "+", " ", "@"} :
                 body \in {BodyLines(affected.records[1].contextualized_changes)}})

----------------------------------------------------------------------------
(* The repository: commits, their trees and their diffs *)

\* a path a tree does not hold
Absent == [exists |-> FALSE, items |-> <<>>, utf8 |-> TRUE]

\* a blob: a file made of the given top-level nodes
Blob(items) == [exists |-> TRUE, items |-> items, utf8 |-> TRUE]

\* a blob whose bytes are text in another encoding than UTF-8
Undecodable == [exists |-> TRUE, items |-> <<>>, utf8 |-> FALSE]

\* what a tree may hold at each path of RepoPaths in a history of commits
\* on m.py, m.txt and tests/m.py
BlobsAt ==
    << {Absent},
       {Absent,
        Blob(<<FunctionNode("f", "x")>>),
        Blob(<<FunctionNode("f", "y")>>),
        Blob(<<FunctionNode("f", "x"), Leaf("expression_statement", "x")>>)},
       {Absent, Blob(<<Leaf("expression_statement", "x")>>)},
       {Absent},
       {Absent, Blob(<<FunctionNode("f", "x")>>)} >>

\* commit_obj.tree: the blob, or its absence, at every path
TreesOf(blobs_at) ==
    {<<b1, b2, b3, b4, b5>> : b1 \in blobs_at[1], b2 \in blobs_at[2], b3 \in blobs_at[3],
                              b4 \in blobs_at[4], b5 \in blobs_at[5]}

Trees == TreesOf(BlobsAt)

\* a repository is the list of the trees of its commits; commit k is the
\* k-th of them, its first parent is commit k - 1, and commit 1 is the root
Repos == UNION {[1..n -> Trees] : n \in 1..MaxCommits}

\* what a tree may hold at each path in a commit on several code files:
\* m.go, m.py and n.py, the last with a statement nested deeper than the
\* interpreter lets extract_from_node descend
CodeBlobsAt ==
    << {Absent, Blob(<<GoFunctionNode("g", "x")>>), Blob(<<GoFunctionNode("g", "y")>>)},
       {Absent,
        Blob(<<FunctionNode("f", "x")>>),
        Blob(<<FunctionNode("f", "y")>>),
        Blob(<<FunctionNode("f", "x"), FunctionNode("g", "x")>>),
        Blob(<<FunctionNode("g", "x"), FunctionNode("f", "y")>>)},
       {Absent},
       {Absent,
        Blob(<<FunctionNode("f", "x")>>),
        Blob(<<FunctionNode("f", "y")>>),
        Blob(<<NestedStatement(RecursionLimit - 2)>>)},
       {Absent} >>

\* a commit on code files and its parent
CodeRepos == [1..2 -> TreesOf(CodeBlobsAt)]

\* the lines of context git puts around a change
GitContext == 3

\* commit_obj.parents is not empty
has_parents(commit_hash) == commit_hash > 1

\* how get_file_at_commit or its try block ends: with a text, or an error
ReturnedText(text) == [status |-> "returned", value |-> text]

RaisedInRead(error) == [status |-> "raised", value |-> error]

\* the try block of get_file_at_commit: commit_obj.tree / file_path raises
\* KeyError without the path, decode raises UnicodeDecodeError on bytes that
\* are not UTF-8
read_blob(blob) ==
    IF ~blob.exists THEN RaisedInRead("KeyError")
    ELSE IF ~blob.utf8 THEN RaisedInRead("UnicodeDecodeError")
    ELSE ReturnedText(file_text(blob.items))

\* a missing path is not among the errors caught
caught_without_key_error == {"GitError", "UnicodeDecodeError"}

\* except (git.exc.GitError, KeyError, UnicodeDecodeError)
caught_in_get_file_at_commit == {"GitError", "KeyError", "UnicodeDecodeError"}

\* get_file_at_commit on a commit of the repository: the text, "" after an
\* error that is caught, else the error
file_at_commit(blob) ==
    Only({IF read.status = "raised" /\ read.value \in caught_in_get_file_at_commit
          THEN ReturnedText(<<>>)
          ELSE read :
          read \in {read_blob(blob)}})

\* get_file_at_commit: the text of the path at the commit, "" without it
get_file_at_commit(repository, commit_hash, i) ==
    IF commit_hash \in 1..Len(repository)
    THEN file_at_commit(repository[commit_hash][i]).value
    ELSE <<>>

\* the source file of a path at a commit, as text and as the parser reads it
source_file_at(repository, commit_hash, i) ==
    IF commit_hash \in 1..Len(repository) /\ file_at_commit(repository[commit_hash][i]).value # <<>>
    THEN SourceFile(repository[commit_hash][i].items)
    ELSE SourceFile(<<>>)

\* parent_commit.diff(commit_obj): the paths whose blob differs
diff_paths(repository, commit_hash) ==
    SelectSeq([i \in 1..Len(RepoPaths) |-> i],
              LAMBDA i : repository[commit_hash][i] # repository[commit_hash - 1][i])

\* the changed paths are told from the parent's tree alone
get_changed_files_of_parent(repository, commit_hash) ==
    IF has_parents(commit_hash)
    THEN {RepoPaths[i] : i \in SetOf(diff_paths(repository, commit_hash))}
    ELSE {}

\* get_changed_files: the changed paths; every blob of a root commit
get_changed_files(repository, commit_hash) ==
    IF has_parents(commit_hash)
    THEN {RepoPaths[i] : i \in SetOf(diff_paths(repository, commit_hash))}
    ELSE {RepoPaths[i] : i \in {k \in 1..Len(RepoPaths) : repository[commit_hash][k].exists}}

\* diff.diff.decode('utf-8') raises UnicodeDecodeError and the file is passed
\* over: the patch of a file this small carries all lines of both blobs
undecodable_diff(repository, commit_hash, i) ==
    ~repository[commit_hash - 1][i].utf8 \/ ~repository[commit_hash][i].utf8

\* get_changed_files_with_diffs: file path and full diff of every changed
\* file whose diff has text; nothing for a root commit
get_changed_files_with_diffs(repository, commit_hash) ==
    IF ~has_parents(commit_hash) THEN <<>>
    ELSE Only({SelectSeq([k \in 1..Len(changes) |->
                             [index |-> changes[k],
                              file_path |-> RepoPaths[changes[k]],
                              file_diff_str |->
                                  IF undecodable_diff(repository, commit_hash, changes[k])
                                  THEN <<>>
                                  ELSE changed_file_diff(
                                           get_file_at_commit(repository, commit_hash - 1,
                                                              changes[k]),
                                           get_file_at_commit(repository, commit_hash,
                                                              changes[k]),
                                           RepoPaths[changes[k]], GitContext)]],
                         LAMBDA entry : entry.file_diff_str # <<>>) :
               changes \in {diff_paths(repository, commit_hash)}})

----------------------------------------------------------------------------
(* Specification of get_changed_files, get_changed_files_with_diffs and
   get_file_at_commit *)

\* what a tree may hold at each path in a history with a file that is not
\* UTF-8 text
AccessBlobsAt ==
    << {Absent},
       {Absent, Blob(<<FunctionNode("f", "x")>>), Blob(<<FunctionNode("f", "y")>>)},
       {Absent, Blob(<<Leaf("expression_statement", "x")>>), Undecodable},
       {Absent},
       {Absent, Blob(<<FunctionNode("f", "x")>>)} >>

\* a root commit alone, or a root commit and its child
AccessRepos == [1..1 -> TreesOf(AccessBlobsAt)] \cup [1..2 -> TreesOf(AccessBlobsAt)]

AccessInit ==
    /\ pc = "access"
    /\ repo \in AccessRepos
    /\ commit \in 1..Len(repo)
    /\ blob_index \in 1..Len(RepoPaths)
    /\ changed_out = [status |-> Idle, value |-> {}]
    /\ diffs_out = [status |-> Idle, value |-> <<>>]
    /\ file_out = [status |-> Idle, value |-> <<>>]
    /\ available = {} /\ depth = 0 /\ outcome = [status |-> Idle, error |-> None, records |-> <<>>]
    /\ SynthIdle /\ RangesIdle /\ OverlapIdle /\ FileIdle /\ parsers = {} /\ AstIdle /\ FormatIdle /\ MainIdle
    /\ ScanIdle /\ HandleIdle /\ CloneIdle /\ TeardownIdle

\* the frame of the three operations on the repository
AccessFrame ==
    UNCHANGED <<pc, pre_text, post_text, paths, diff, func_diff, hunks, unified_diff,
                ranges_out, span, changed, overlap_out, pre_file, post_file, file_diff,
                file_path, affected, repo, available, commit, depth, parsers, outcome,
                scan_result, files_changed, interesting, language_configs, requested,
                loads, calls, repo_cache, env, cache_dir, temp_dir, git_log, repo_path,
                cleanup_repo, clone_out, self_repo, cleanups, response, blob_index,
                   ast_file, ast_config, functions,
                   vulnerabilities, format_out,
                   cve_ids, checkpoint_frequency, processed_results, checkpointer, checkpoint_files, final_saved>>

\* self.get_changed_files(commit_hash)
GetChangedFiles ==
    /\ pc = "access" /\ changed_out.status = Idle
    /\ changed_out' = [status |-> "returned", value |-> get_changed_files(repo, commit)]
    /\ UNCHANGED <<diffs_out, file_out,
                   ast_file, ast_config, functions,
                   vulnerabilities, format_out,
                   cve_ids, checkpoint_frequency, processed_results, checkpointer, checkpoint_files, final_saved>>
    /\ AccessFrame

\* self.get_changed_files_with_diffs(commit_hash)
GetChangedFilesWithDiffs ==
    /\ pc = "access" /\ diffs_out.status = Idle
    /\ diffs_out' = [status |-> "returned",
                     value |-> get_changed_files_with_diffs(repo, commit)]
    /\ UNCHANGED <<changed_out, file_out,
                   ast_file, ast_config, functions,
                   vulnerabilities, format_out,
                   cve_ids, checkpoint_frequency, processed_results, checkpointer, checkpoint_files, final_saved>>
    /\ AccessFrame

\* self.get_file_at_commit(commit, file_path)
GetFileAtCommit ==
    /\ pc = "access" /\ file_out.status = Idle
    /\ file_out' = file_at_commit(repo[commit][blob_index])
    /\ UNCHANGED <<changed_out, diffs_out,
                   ast_file, ast_config, functions,
                   vulnerabilities, format_out,
                   cve_ids, checkpoint_frequency, processed_results, checkpointer, checkpoint_files, final_saved>>
    /\ AccessFrame

AccessNext == GetChangedFiles \/ GetChangedFilesWithDiffs \/ GetFileAtCommit

AccessSpec == AccessInit /\ [][AccessNext]_vars

\* C23: for a commit without parent, get_changed_files returns the path of
\* every file of the commit's tree and get_changed_files_with_diffs returns
\* an empty mapping
C23_RootCommitChangesEveryFile ==
    ~has_parents(commit) /\ pc = "access" =>
        /\ changed_out.status # Idle =>
              /\ changed_out.status = "returned"
              /\ changed_out.value =
                    {RepoPaths[i] : i \in {k \in 1..Len(RepoPaths) : repo[commit][k] # Absent}}
        /\ diffs_out.status # Idle => diffs_out.status = "returned" /\ diffs_out.value = <<>>

\* both were called on a root commit that holds files
C23_Witness ==
    /\ pc = "access" /\ ~has_parents(commit)
    /\ changed_out.status = "returned" /\ diffs_out.status = "returned"
    /\ Cardinality(changed_out.value) = 3
    /\ diffs_out.value = <<>>

----------------------------------------------------------------------------
(* FuncLevelDiffGenerator.extract_function_diffs_from_commit *)

\* _is_interesting_commit: some changed file escapes the ignore patterns of
\* its language, those of python if its language is unknown
is_interesting_commit(changed_files) ==
    \E filepath \in changed_files :
        Only({IF file_lang = None
              THEN ~is_ignored(filepath, "python")
              ELSE /\ get_language_config(file_lang).name # None
                   /\ ~is_ignored(filepath, get_language_config(file_lang).name) :
              file_lang \in {detect_file_language(filepath)}})

\* None in place of a commit
NoCommit == 0

RECURSIVE scan_history_unbounded(_, _, _, _)
\* the scan goes on to the root commit whatever the depth
scan_history_unbounded(repository, current_commit, commits_checked, max_history_scan_depth) ==
    IF is_interesting_commit(get_changed_files(repository, current_commit))
    THEN current_commit
    ELSE IF has_parents(current_commit)
    THEN scan_history_unbounded(repository, current_commit - 1, commits_checked + 1,
                                max_history_scan_depth)
    ELSE NoCommit

RECURSIVE scan_history(_, _, _, _)
\* _get_interesting_commit: the loop, at current_commit after commits_checked
scan_history(repository, current_commit, commits_checked, max_history_scan_depth) ==
    IF commits_checked >= max_history_scan_depth THEN NoCommit
    ELSE IF is_interesting_commit(get_changed_files(repository, current_commit))
    THEN current_commit
    ELSE IF has_parents(current_commit)
    THEN scan_history(repository, current_commit - 1, commits_checked + 1,
                      max_history_scan_depth)
    ELSE NoCommit

get_interesting_commit(repository, commit_hash, max_history_scan_depth) ==
    scan_history(repository, commit_hash, 0, max_history_scan_depth)

\* every detected language gets a parser, loadable or not
load_parsers_regardless(repository, commit_hash, loaded, loadable) ==
    loaded \cup ({detect_file_language(path) :
                     path \in get_changed_files(repository, commit_hash)} \ {None})

\* _load_parsers_for_commit: self.parsers afterwards; `loadable` are the
\* languages for which get_parser succeeds
load_parsers_for_commit(repository, commit_hash, loaded, loadable) ==
    loaded \cup ({detect_file_language(path) :
                     path \in get_changed_files(repository, commit_hash)}
                 \cap loadable)

\* the call returns the empty list whatever it collected
finish_quietly(all_function_diffs) == Returned(all_function_diffs)

\* the end of the call: ValueError for an empty list, else the list
finish(all_function_diffs) ==
    IF Len(all_function_diffs) = 0 THEN RaisedError("No function diffs found")
    ELSE Returned(all_function_diffs)

\* diff.update({"file_path": ..., "file_language": ...})
with_file(record, path, file_language) ==
    record @@ [file_path |-> path, file_language |-> file_language]

\* the file is passed over before the try block
skips_file(path, loaded) ==
    Only({\/ file_language = None
          \/ /\ get_language_config(file_language).name # None
             /\ is_ignored(path, get_language_config(file_language).name)
          \/ file_language \notin loaded :
          file_language \in {detect_file_language(path)}})

RECURSIVE process_files(_, _, _, _, _)
\* the loop over file_diffs.items(), all_function_diffs being what it has
\* collected; an error of extract_function_diffs_from_file_diff that is no
\* GitError and no UnicodeDecodeError leaves the call
process_files(repository, interesting_commit, file_diffs0, loaded, all_function_diffs0) ==
    Only({IF file_diffs = <<>> THEN finish(all_function_diffs)
          ELSE IF skips_file(file_diffs[1].file_path, loaded)
               \/ strip(file_diffs[1].file_diff_str) = <<>>
          THEN process_files(repository, interesting_commit, Tail(file_diffs), loaded,
                             all_function_diffs)
          ELSE Only({IF function_level_diffs.status = "raised"
                     THEN RaisedError(function_level_diffs.error)
                     ELSE process_files(
                              repository, interesting_commit, Tail(file_diffs), loaded,
                              all_function_diffs
                              \o [k \in 1..Len(function_level_diffs.records) |->
                                     with_file(function_level_diffs.records[k],
                                               file_diffs[1].file_path,
                                               detect_file_language(
                                                   file_diffs[1].file_path))]) :
                     function_level_diffs \in
                         {extract_function_diffs_from_file_diff(
                              source_file_at(repository, interesting_commit - 1,
                                             file_diffs[1].index),
                              source_file_at(repository, interesting_commit,
                                             file_diffs[1].index),
                              file_diffs[1].file_diff_str,
                              file_diffs[1].file_path,
                              loaded)}}) :
          file_diffs \in {file_diffs0}, all_function_diffs \in {all_function_diffs0}})

\* extract_function_diffs_from_commit, from step 2 on
process_commit(repository, interesting_commit, loaded) ==
    Only({IF file_diffs = <<>> THEN Returned(<<>>)
          ELSE process_files(repository, interesting_commit, file_diffs, loaded, <<>>) :
          file_diffs \in {get_changed_files_with_diffs(repository, interesting_commit)}})

\* step 1: the commit itself, or the one the scan of the history finds
interesting_commit_of(repository, commit_hash, max_history_scan_depth) ==
    IF max_history_scan_depth # 0
    THEN get_interesting_commit(repository, commit_hash, max_history_scan_depth)
    ELSE commit_hash

\* extract_function_diffs_from_commit(commit_hash, max_history_scan_depth):
\* how the call ends; `loaded` is self.parsers once step 2 is done
extract_function_diffs_from_commit(repository, commit_hash, max_depth, loaded) ==
    Only({IF interesting_commit = NoCommit THEN Returned(<<>>)
          ELSE process_commit(repository, interesting_commit, loaded) :
          interesting_commit \in
              {interesting_commit_of(repository, commit_hash, max_depth)}})

----------------------------------------------------------------------------
(* Specification of extract_function_diffs_from_commit *)

Languages == {"python", "go"}

CommitInit ==
    /\ pc = "commit"
    /\ repo \in Repos
    /\ commit = Len(repo)
    /\ depth \in 0..MaxDepth
    /\ available \in SUBSET {"python"}
    /\ parsers \in SUBSET available
    /\ outcome = NoRecords
    /\ SynthIdle /\ RangesIdle /\ OverlapIdle /\ FileIdle /\ ScanIdle /\ HandleIdle /\ CloneIdle /\ TeardownIdle /\ AccessIdle /\ AstIdle /\ FormatIdle /\ MainIdle

ExtractFunctionDiffsFromCommit ==
    /\ pc = "commit"
    /\ LET interesting_commit == interesting_commit_of(repo, commit, depth)
       IN  parsers' = IF interesting_commit = NoCommit THEN parsers
                      ELSE load_parsers_for_commit(repo, interesting_commit, parsers,
                                                   available)
    /\ outcome' = extract_function_diffs_from_commit(repo, commit, depth, parsers')
    /\ pc' = IF outcome'.status = "raised" THEN "commit_raised" ELSE "commit_done"
    /\ UNCHANGED <<pre_text, post_text, paths, diff, func_diff, hunks, unified_diff,
                   ranges_out, span, changed, overlap_out, pre_file, post_file, file_diff,
                   file_path, affected, repo, available, commit, depth,
                   scan_result, files_changed, interesting,
                   language_configs, requested, loads, calls,
                   repo_cache, env, cache_dir, temp_dir, git_log, repo_path, cleanup_repo, clone_out,
                   self_repo, cleanups, response,
                   blob_index, changed_out, diffs_out, file_out,
                   ast_file, ast_config, functions,
                   vulnerabilities, format_out,
                   cve_ids, checkpoint_frequency, processed_results, checkpointer, checkpoint_files, final_saved>>

CommitNext == ExtractFunctionDiffsFromCommit

CommitSpec == CommitInit /\ [][CommitNext]_vars

\* the call without history scanning on a commit that changed code files
CodeInit ==
    /\ pc = "commit"
    /\ repo \in CodeRepos
    /\ commit = Len(repo)
    /\ depth = 0
    /\ available \in SUBSET Languages
    /\ parsers = {}
    /\ outcome = NoRecords
    /\ SynthIdle /\ RangesIdle /\ OverlapIdle /\ FileIdle /\ ScanIdle /\ HandleIdle /\ CloneIdle /\ TeardownIdle /\ AccessIdle /\ AstIdle /\ FormatIdle /\ MainIdle

CodeSpec == CodeInit /\ [][CommitNext]_vars

\* the call has ended
Finished == pc \in {"commit_done", "commit_raised"}

\* the files the commit changed
ChangedPaths == get_changed_files(repo, commit)

\* m.txt is of no known language, tests/m.py lies under tests/
NonCodePaths == {RepoPaths[3], RepoPaths[5]}

\* C9 as stated: a call that ends with no function-diff record ends with the
\* ValueError "No function diffs found", whichever way the aggregate came to
\* be empty.
C9_EmptyAggregateRaises ==
    (Finished /\ outcome.records = <<>>) =>
        /\ outcome.status = "raised"
        /\ outcome.error = "No function diffs found"

\* C10 as stated: without history scanning, a commit whose changed files are
\* all of unknown language or ignored ends without an error.
C10_NonCodeCommitCompletes ==
    (Finished /\ depth = 0 /\ ChangedPaths # {} /\ ChangedPaths \subseteq NonCodePaths) =>
        outcome.status = "returned"

\* C10, amended: without history scanning, a commit whose changed files are
\* all of unknown language or ignored ends with the ValueError "No function
\* diffs found" if it has a file diff, and returns the empty list only if it
\* has none (a root commit).
C10_NonCodeCommitRaisesUnlessNoDiffs ==
    (Finished /\ depth = 0 /\ ChangedPaths # {} /\ ChangedPaths \subseteq NonCodePaths) =>
        IF get_changed_files_with_diffs(repo, commit) # <<>>
        THEN outcome.status = "raised" /\ outcome.error = "No function diffs found"
        ELSE outcome.status = "returned" /\ outcome.records = <<>>

\* C10 witness: a call without scanning on a commit with a parent that
\* changed m.txt and tests/m.py and nothing else has ended in the ValueError,
\* the python parser being loaded.
C10_Witness ==
    /\ Finished
    /\ depth = 0
    /\ has_parents(commit)
    /\ ChangedPaths = NonCodePaths
    /\ "python" \in parsers
    /\ outcome.status = "raised"
    /\ outcome.error = "No function diffs found"

----------------------------------------------------------------------------
(* The files of the processed commit, one by one *)

\* the commit whose files the call processes
ProcessedCommit == interesting_commit_of(repo, commit, depth)

\* the file diffs the call loops over
FileDiffs == get_changed_files_with_diffs(repo, ProcessedCommit)

\* what extract_function_diffs_from_file_diff makes of an entry of the file
\* diffs of the processed commit
FileResult(entry, interesting_commit) ==
    extract_function_diffs_from_file_diff(
        source_file_at(repo, interesting_commit - 1, entry.index),
        source_file_at(repo, interesting_commit, entry.index),
        entry.file_diff_str, entry.file_path, parsers)

\* the file is passed over before the try block
PassedOver(entry) ==
    skips_file(entry.file_path, parsers) \/ strip(entry.file_diff_str) = <<>>

\* how the processing of one file goes: passed over, failed with an error,
\* or done with its records, which carry the path and language of the file
FileOutcome(entry, interesting_commit) ==
    IF PassedOver(entry)
    THEN [file_path |-> entry.file_path, state |-> "passed over", error |-> None,
          records |-> <<>>]
    ELSE Only({[file_path |-> entry.file_path,
                state |-> IF result.status = "raised" THEN "failed" ELSE "done",
                error |-> result.error,
                records |-> [j \in 1..Len(result.records) |->
                                with_file(result.records[j], entry.file_path,
                                          detect_file_language(entry.file_path))]] :
               result \in {FileResult(entry, interesting_commit)}})

\* the files of the processed commit in the order of the loop
FileOutcomes ==
    Only({[k \in 1..Len(file_diffs) |-> FileOutcome(file_diffs[k], interesting_commit)] :
          file_diffs \in {FileDiffs}, interesting_commit \in {ProcessedCommit}})

\* the records of the files, one file after the other
RecordsOf(files) == Concat([k \in 1..Len(files) |-> files[k].records])

\* the call went through the loop over the file diffs
Looped == Finished /\ ProcessedCommit # NoCommit /\ FileDiffs # <<>>

\* C11 as stated: an error raised while one changed file is processed never
\* ends the call; the file is skipped, the files after it are processed and
\* the records collected before it are kept, so the call ends as it would
\* have on the records of the files that did not fail.
C11_FileErrorsNeverAbort ==
    Looped => outcome = finish(RecordsOf(FileOutcomes))

\* the place of a path in the loop over the file diffs
PlaceOf(path, file_diffs) == Min_of({k \in 1..Len(file_diffs) : file_diffs[k].file_path = path})

\* the record is that of a function the commit added: it has no pre-image
IsAddition(record) == record.pre_func_text = <<>>

\* C12: the returned list keeps the order of the changed files (every
\* record of an earlier file comes before every record of a later file),
\* and within one file every record of a pre-image function (modified or
\* deleted) comes before every record of an added function.
C12_OrderOfRecords ==
    (Looped /\ outcome.status = "returned") =>
        Only({\A i, j \in 1..Len(outcome.records) :
                  i < j =>
                      LET first == outcome.records[i]
                          second == outcome.records[j]
                      IN  /\ PlaceOf(first.file_path, file_diffs)
                             <= PlaceOf(second.file_path, file_diffs)
                          /\ (first.file_path = second.file_path /\ IsAddition(first))
                                 => IsAddition(second) :
              file_diffs \in {FileDiffs}})

\* C12 witness: the returned list has records of two files, and of one file
\* both the record of a modified function and the record of an added
\* function that stands above it in the file.
C12_Witness ==
    /\ Finished
    /\ outcome.status = "returned"
    /\ \E i, j \in 1..Len(outcome.records) :
           outcome.records[i].file_path # outcome.records[j].file_path
    /\ \E i, j \in 1..Len(outcome.records) :
           /\ i < j
           /\ outcome.records[i].file_path = outcome.records[j].file_path
           /\ ~IsAddition(outcome.records[i])
           /\ outcome.records[i].post_func_text # <<>>
           /\ IsAddition(outcome.records[j])
           /\ outcome.records[j].func_name = <<"g">>

\* the language of the file has no parser that can be loaded
Unloadable(file) == detect_file_language(file.file_path) \notin available \cup {None}

\* C17: a parser that cannot be loaded never makes the call fail.  Every
\* changed file of such a language is passed over, no returned record is of
\* such a language, the call ends with no error of the loading, and, unless
\* the processing of a file itself raises, it ends as it does on the records
\* of the files of the other languages.
C17_UnloadableParserSkipsItsFiles ==
    Looped =>
        Only({/\ \A k \in 1..Len(files) :
                    Unloadable(files[k]) => files[k].state = "passed over"
              /\ \A r \in SetOf(outcome.records) : r.file_language \in available
              /\ outcome.error \in {None, "No function diffs found", "RecursionError"}
              /\ (\A k \in 1..Len(files) : files[k].state # "failed")
                    => outcome = finish(RecordsOf(files)) :
              files \in {FileOutcomes}})

\* C17 witness: the python parser cannot be loaded; the commit changed m.go
\* and m.py, and the call has returned the records of m.go.
C17_Witness ==
    /\ Finished
    /\ available = {"go"}
    /\ {RepoPaths[1], RepoPaths[2]} \subseteq ChangedPaths
    /\ outcome.status = "returned"
    /\ outcome.records # <<>>
    /\ \A r \in SetOf(outcome.records) : r.file_path = RepoPaths[1]

----------------------------------------------------------------------------
(* The parser cache of one repository handle: _load_parser *)

\* self.parsers, self.language_configs and the two counts, as one value
Handle(parsers0, language_configs0, requested0, loads0) ==
    [parsers |-> parsers0, language_configs |-> language_configs0,
     requested |-> requested0, loads |-> loads0]

\* the handle after __init__: both dicts empty
NewHandle ==
    Handle({}, {}, [language \in Languages |-> 0], [language \in Languages |-> 0])

\* get_parser is called and its parser stored even for a language that has one
load_parser_again(handle, language, loadable) ==
    IF language \notin loadable
    THEN [handle EXCEPT !.requested[language] = @ + 1]
    ELSE Handle(handle.parsers \cup {language},
                IF get_language_config(language).name # None
                THEN handle.language_configs \cup {language}
                ELSE handle.language_configs,
                [handle.requested EXCEPT ![language] = @ + 1],
                [handle.loads EXCEPT ![language] = @ + 1])

\* _load_parser(language): nothing for a language that has a parser; else
\* get_parser, whose failure is logged and leaves the handle as it is
load_parser(handle, language, loadable) ==
    IF language \in handle.parsers
    THEN [handle EXCEPT !.requested[language] = @ + 1]
    ELSE IF language \notin loadable
    THEN [handle EXCEPT !.requested[language] = @ + 1]
    ELSE Handle(handle.parsers \cup {language},
                IF get_language_config(language).name # None
                THEN handle.language_configs \cup {language}
                ELSE handle.language_configs,
                [handle.requested EXCEPT ![language] = @ + 1],
                [handle.loads EXCEPT ![language] = @ + 1])

\* _detect_languages_in_files
detect_languages_in_files(file_paths) ==
    {detect_file_language(path) : path \in file_paths} \ {None}

RECURSIVE load_parsers(_, _, _)
\* the loop of _load_parsers_for_commit over the detected languages
load_parsers(handle, languages, loadable) ==
    IF languages = {} THEN handle
    ELSE load_parsers(load_parser(handle, Only(languages), loadable),
                      languages \ {Only(languages)}, loadable)

\* _load_parsers_for_commit on the handle
load_parsers_of_commit(handle, repository, commit_hash, loadable) ==
    load_parsers(handle,
                 detect_languages_in_files(get_changed_files(repository, commit_hash)),
                 loadable)

\* the handle after steps 1 and 2 of extract_function_diffs_from_commit
handle_after(handle, repository, commit_hash, max_depth, loadable) ==
    Only({IF interesting_commit = NoCommit THEN handle
          ELSE load_parsers_of_commit(handle, repository, interesting_commit, loadable) :
          interesting_commit \in
              {interesting_commit_of(repository, commit_hash, max_depth)}})

\* what a tree may hold at each path in a history of commits on the Go
\* file m.go and the Python file m.py
HandleBlobsAt ==
    << {Absent, Blob(<<GoFunctionNode("g", "x")>>)},
       {Absent, Blob(<<FunctionNode("f", "x")>>)},
       {Absent},
       {Absent},
       {Absent} >>

\* a commit and its parent
HandleRepos == [1..2 -> TreesOf(HandleBlobsAt)]

HandleInit ==
    /\ pc = "handle"
    /\ repo \in HandleRepos
    /\ available \in SUBSET Languages
    /\ commit = NoCommit
    /\ depth = 0
    /\ parsers = NewHandle.parsers
    /\ language_configs = NewHandle.language_configs
    /\ requested = NewHandle.requested
    /\ loads = NewHandle.loads
    /\ calls = 0
    /\ outcome = NoRecords
    /\ SynthIdle /\ RangesIdle /\ OverlapIdle /\ FileIdle /\ ScanIdle /\ CloneIdle /\ TeardownIdle /\ AccessIdle /\ AstIdle /\ FormatIdle /\ MainIdle

\* one more call of extract_function_diffs_from_commit on the handle
ProcessCommit ==
    /\ pc = "handle"
    /\ calls < MaxCalls
    /\ calls' = calls + 1
    /\ commit' \in 1..Len(repo)
    /\ depth' \in 0..MaxDepth
    /\ \E handle \in {handle_after(Handle(parsers, language_configs, requested, loads),
                                    repo, commit', depth', available)} :
          /\ parsers' = handle.parsers
          /\ language_configs' = handle.language_configs
          /\ requested' = handle.requested
          /\ loads' = handle.loads
    /\ outcome' = extract_function_diffs_from_commit(repo, commit', depth', parsers')
    /\ UNCHANGED <<pc, pre_text, post_text, paths, diff, func_diff, hunks, unified_diff,
                   ranges_out, span, changed, overlap_out, pre_file, post_file, file_diff,
                   file_path, affected, repo, available, scan_result, files_changed,
                   interesting,
                   repo_cache, env, cache_dir, temp_dir, git_log, repo_path, cleanup_repo, clone_out,
                   self_repo, cleanups, response,
                   blob_index, changed_out, diffs_out, file_out,
                   ast_file, ast_config, functions,
                   vulnerabilities, format_out,
                   cve_ids, checkpoint_frequency, processed_results, checkpointer, checkpoint_files, final_saved>>

HandleNext == ProcessCommit

HandleSpec == HandleInit /\ [][HandleNext]_vars

\* C18: over the calls made on one handle the cache only grows: a language
\* that has a parser keeps it, no parser is stored for it again, and
\* language_configs holds no language that parsers does not hold.
C18_CacheOnlyGrows ==
    [][/\ parsers \subseteq parsers'
       /\ language_configs \subseteq language_configs'
       /\ \A language \in parsers : loads'[language] = loads[language]
       /\ language_configs' \subseteq parsers']_vars

\* C18 witness: _load_parser was called three times for a language and
\* stored its parser once.
C18_Witness ==
    /\ pc = "handle"
    /\ \E language \in parsers :
           /\ requested[language] = MaxCalls
           /\ loads[language] = 1
           /\ language \in language_configs

----------------------------------------------------------------------------
(* Specification of _get_interesting_commit *)

ScanInit ==
    /\ pc = "scan"
    /\ repo \in Repos
    /\ commit \in 1..Len(repo)
    /\ depth \in 0..MaxDepth
    /\ available = {}
    /\ parsers = {}
    /\ outcome = NoRecords
    /\ scan_result = NoCommit /\ files_changed = {} /\ interesting = FALSE
    /\ SynthIdle /\ RangesIdle /\ OverlapIdle /\ FileIdle /\ HandleIdle /\ CloneIdle /\ TeardownIdle /\ AccessIdle /\ AstIdle /\ FormatIdle /\ MainIdle

GetInterestingCommit ==
    /\ pc = "scan"
    /\ scan_result' = get_interesting_commit(repo, commit, depth)
    /\ pc' = "scan_done"
    /\ UNCHANGED <<pre_text, post_text, paths, diff, func_diff, hunks, unified_diff,
                   ranges_out, span, changed, overlap_out, pre_file, post_file, file_diff,
                   file_path, affected, repo, available, commit, depth, parsers, outcome,
                   files_changed, interesting,
                   language_configs, requested, loads, calls,
                   repo_cache, env, cache_dir, temp_dir, git_log, repo_path, cleanup_repo, clone_out,
                   self_repo, cleanups, response,
                   blob_index, changed_out, diffs_out, file_out,
                   ast_file, ast_config, functions,
                   vulnerabilities, format_out,
                   cve_ids, checkpoint_frequency, processed_results, checkpointer, checkpoint_files, final_saved>>

ScanNext == GetInterestingCommit

ScanSpec == ScanInit /\ [][ScanNext]_vars

\* the commits the scan may examine: the start commit and its first-parent
\* ancestors, max_history_scan_depth commits at most, the root the last
Examined == {c \in 1..commit : commit - c < depth}

\* the commit changes a file that the ignore patterns let through
Interesting(c) == is_interesting_commit(get_changed_files(repo, c))

\* the paths a commit touches
Touches(c) == get_changed_files(repo, c)

\* C13: _get_interesting_commit returns the first interesting commit among
\* the start commit and its first-parent ancestors, taken in that order, at
\* most max_history_scan_depth of them and none beyond a root commit; it
\* returns None if none of them is interesting.
C13_FirstInterestingWithinDepth ==
    pc = "scan_done" =>
        Only({scan_result = IF hits = {} THEN NoCommit ELSE Max_of(hits) :
              hits \in {{c \in Examined : Interesting(c)}}})

\* C13 witness: the start commit and its parent touch m.txt only, the
\* grandparent touches m.py, and the scan of depth 3 has returned the
\* grandparent.
C13_Witness ==
    /\ pc = "scan_done"
    /\ commit = 3
    /\ depth = 3
    /\ Touches(3) = {RepoPaths[3]}
    /\ Touches(2) = {RepoPaths[3]}
    /\ RepoPaths[2] \in Touches(1)
    /\ scan_result = 1

----------------------------------------------------------------------------
(* Specification of _is_interesting_commit *)

\* the paths a commit may have changed
ChangedFilePaths == FilePaths \cup SetOf(RepoPaths) \cup TestPaths

InterestingInit ==
    /\ pc = "interesting"
    /\ files_changed \in SUBSET ChangedFilePaths
    /\ interesting = FALSE
    /\ scan_result = NoCommit
    /\ SynthIdle /\ RangesIdle /\ OverlapIdle /\ FileIdle /\ CommitIdle /\ parsers = {} /\ HandleIdle /\ CloneIdle /\ TeardownIdle /\ AccessIdle /\ AstIdle /\ FormatIdle /\ MainIdle

IsInterestingCommit ==
    /\ pc = "interesting"
    /\ interesting' = is_interesting_commit(files_changed)
    /\ pc' = "interesting_done"
    /\ UNCHANGED <<pre_text, post_text, paths, diff, func_diff, hunks, unified_diff,
                   ranges_out, span, changed, overlap_out, pre_file, post_file, file_diff,
                   file_path, affected, repo, available, commit, depth, parsers, outcome,
                   scan_result, files_changed,
                   language_configs, requested, loads, calls,
                   repo_cache, env, cache_dir, temp_dir, git_log, repo_path, cleanup_repo, clone_out,
                   self_repo, cleanups, response,
                   blob_index, changed_out, diffs_out, file_out,
                   ast_file, ast_config, functions,
                   vulnerabilities, format_out,
                   cve_ids, checkpoint_frequency, processed_results, checkpointer, checkpoint_files, final_saved>>

InterestingNext == IsInterestingCommit

InterestingSpec == InterestingInit /\ [][InterestingNext]_vars

\* the pattern tests/**
TestsPattern == <<"t", "e", "s", "t", "s", "/", "*", "*">>

\* the file is excluded by the ignore patterns of its language, those of
\* python if its language is unknown
Excluded(filepath) ==
    IF detect_file_language(filepath) = None
    THEN matches_ignore_patterns(filepath, "python")
    ELSE matches_ignore_patterns(filepath,
                                 get_language_config(detect_file_language(filepath)).name)

\* C14 as stated: _is_interesting_commit returns true exactly if some changed
\* file is not excluded by the ignore patterns, and so it returns false for
\* every commit whose changed files all match tests/**, whatever the
\* languages of those files.
C14_TestsOnlyNeverInteresting ==
    pc = "interesting_done" =>
        /\ interesting <=> \E filepath \in files_changed : ~Excluded(filepath)
        /\ (\A filepath \in files_changed : fnmatch(filepath, TestsPattern))
              => ~interesting

----------------------------------------------------------------------------
(* clone_repository, _update_cached_repo, _clone_to_cache, _clone_to_temp_dir *)

\* the branches a remote may have
Branches == {"main", "master", "dev"}

\* the operations that may fail in a run
Operations == {"mkdir", "fetch", "checkout", "pull", "rmtree", "clone to cache", "clone to temp"}

\* nothing at a path
Missing == [kind |-> "missing", refs |-> {}, head |-> None]

\* something at the path that is no repository
Invalid == [kind |-> "invalid", refs |-> {}, head |-> None]

\* a clone: the remote-tracking refs it holds and the branch checked out
Clone(refs, head) == [kind |-> "repo", refs |-> refs, head |-> head]

\* the remote-tracking ref of a branch
origin(branch) == "origin/" \o branch

\* the disk, the log of operations and self.cleanup_repo, as one value
World(cache_dir0, temp_dir0, git_log0, cleanup_repo0) ==
    [cache_dir |-> cache_dir0, temp_dir |-> temp_dir0, git_log |-> git_log0,
     cleanup_repo |-> cleanup_repo0]

\* the world with one more entry in its log: an operation, or the error the
\* last operation raised
logged(world, entry) == [world EXCEPT !.git_log = Append(@, entry)]

\* master is tried before main
default_branch_master_first(refs) ==
    IF origin("master") \in refs THEN "master"
    ELSE IF origin("main") \in refs THEN "main"
    ELSE None

\* default_branch in _update_cached_repo: main first, then master
default_branch(refs) ==
    IF origin("main") \in refs THEN "main"
    ELSE IF origin("master") \in refs THEN "master"
    ELSE None

\* origin.fetch(): the remote's branches join the refs of the clone; nothing
\* is pruned
fetched(refs, environment) == refs \cup {origin(branch) : branch \in environment.branches}

\* cached_repo.git.checkout(default_branch); origin.pull(default_branch): the
\* pull fails when the remote has no such branch any more
checkout_and_pull(world0, branch, environment) ==
    IF "checkout" \in environment.faults
    THEN [updated |-> FALSE, world |-> logged(logged(world0, "checkout " \o branch), "GitError")]
    ELSE Only({IF "pull" \in environment.faults \/ branch \notin environment.branches
               THEN [updated |-> FALSE, world |-> logged(world, "GitError")]
               ELSE [updated |-> TRUE, world |-> world] :
               world \in {logged(logged([world0 EXCEPT !.cache_dir.head = branch],
                                        "checkout " \o branch),
                                 "pull " \o branch)}})

\* the inner try block of _update_cached_repo on a valid repository: fetch,
\* then checkout and pull of the default branch; FALSE after a GitError
pull_latest(world0, environment) ==
    IF "fetch" \in environment.faults
    THEN [updated |-> FALSE, world |-> logged(logged(world0, "fetch"), "GitError")]
    ELSE Only({IF branch = None THEN [updated |-> TRUE, world |-> world]
               ELSE checkout_and_pull(world, branch, environment) :
               world \in {logged([world0 EXCEPT !.cache_dir.refs = fetched(@, environment)],
                                 "fetch")},
               branch \in {default_branch(fetched(world0.cache_dir.refs, environment))}})

\* an invalid cache path is left where it is
keep_invalid(world, environment) == logged(world, "rmtree")

\* shutil.rmtree(cached_repo_path, ignore_errors=True): the path is gone
\* unless the removal fails, which goes unnoticed
remove_invalid(world, environment) ==
    IF "rmtree" \in environment.faults THEN logged(world, "rmtree")
    ELSE logged([world EXCEPT !.cache_dir = Missing], "rmtree")

\* _update_cached_repo on a cache path that exists
update_cached_repo(world, environment) ==
    IF world.cache_dir.kind = "repo" THEN pull_latest(world, environment)
    ELSE [updated |-> FALSE, world |-> remove_invalid(world, environment)]

\* how a call ends: with the path it returns, or with the error it raises
ReturnedPath(path, world) == [status |-> "returned", value |-> path, world |-> world]

RaisedFrom(error, world) == [status |-> "raised", value |-> error, world |-> world]

\* what Repo.clone_from leaves at its target: the remote's branches as refs,
\* the remote's HEAD checked out
cloned_from(environment) ==
    Clone({origin(branch) : branch \in environment.branches}, environment.head)

\* Repo.clone_from(repo_url, cached_repo_path): git refuses a path that holds
\* something already
clone_from_to_cache(world0, environment) ==
    Only({IF "clone to cache" \in environment.faults \/ world.cache_dir.kind # "missing"
          THEN RaisedFrom("GitError", logged(world, "GitError"))
          ELSE ReturnedPath("cache", [world EXCEPT !.cache_dir = cloned_from(environment)]) :
          world \in {logged(world0, "clone to cache")}})

\* the rest of _clone_to_cache once the cache directory is there
clone_to_cache_at(world, environment) ==
    Only({IF world.cache_dir.kind # "missing" /\ update.updated
          THEN ReturnedPath("cache", [update.world EXCEPT !.cleanup_repo = FALSE])
          ELSE Only({IF cloned.status = "raised" THEN cloned
                     ELSE ReturnedPath("cache", [cloned.world EXCEPT !.cleanup_repo = FALSE]) :
                     cloned \in {clone_from_to_cache(update.world, environment)}}) :
          update \in {IF world.cache_dir.kind # "missing"
                      THEN update_cached_repo(world, environment)
                      ELSE [updated |-> FALSE, world |-> world]}})

\* _clone_to_cache
clone_to_cache(world, environment) ==
    IF "mkdir" \in environment.faults
    THEN RaisedFrom("OSError", logged(logged(world, "mkdir"), "OSError"))
    ELSE clone_to_cache_at(logged(world, "mkdir"), environment)

\* _clone_to_temp_dir: a clone in a new temporary directory
clone_to_temp_dir(world0, environment) ==
    Only({IF "clone to temp" \in environment.faults
          THEN RaisedFrom("GitError", logged(world, "GitError"))
          ELSE ReturnedPath("temp", [world EXCEPT !.temp_dir = cloned_from(environment),
                                                  !.cleanup_repo = TRUE]) :
          world \in {logged(world0, "clone to temp")}})

\* a failure of the cache reaches the caller
clone_repository_propagating(world, configured, environment) ==
    IF configured THEN clone_to_cache(world, environment)
    ELSE clone_to_temp_dir(world, environment)

\* clone_repository: the cache if one is configured and works, else a
\* temporary directory
clone_repository(world, configured, environment) ==
    IF configured
    THEN Only({IF cached.status = "returned" THEN cached
               ELSE clone_to_temp_dir(cached.world, environment) :
               cached \in {clone_to_cache(world, environment)}})
    ELSE clone_to_temp_dir(world, environment)

\* os.path.exists(self.repo_path)
path_exists(world, path) ==
    IF path = "cache" THEN world.cache_dir.kind # "missing"
    ELSE IF path = "temp" THEN world.temp_dir.kind # "missing"
    ELSE FALSE

\* shutil.rmtree(temp_dir, ignore_errors=True) on the parent directory of the
\* working copy: it is gone unless the removal fails, which goes unnoticed
remove_parent(world, path, environment) ==
    IF "rmtree" \in environment.faults THEN logged(world, "rmtree " \o path)
    ELSE IF path = "temp" THEN logged([world EXCEPT !.temp_dir = Missing], "rmtree " \o path)
    ELSE logged([world EXCEPT !.cache_dir = Missing], "rmtree " \o path)

\* the fields of the handle that cleanup may change, and the disk
Teardown(world, path, open_repo) == [world |-> world, repo_path |-> path, repo |-> open_repo]

\* the working copy is removed whether marked for removal or not
cleanup_unmarked(world, path, open_repo, environment) ==
    IF path # None /\ path_exists(world, path)
    THEN Teardown(remove_parent(world, path, environment), None, None)
    ELSE Teardown(world, path, open_repo)

\* cleanup
cleanup(world, path, open_repo, environment) ==
    IF world.cleanup_repo /\ path # None /\ path_exists(world, path)
    THEN Teardown(remove_parent(world, path, environment), None, None)
    ELSE Teardown(world, path, open_repo)

----------------------------------------------------------------------------
(* Specification of clone_repository *)

\* what the cache path may hold when the handle is made: nothing, something
\* that is no repository, or a clone made earlier
CacheDirs ==
    {Missing, Invalid}
    \cup {Clone(refs, head) : refs \in SUBSET {origin(b) : b \in Branches},
                              head \in Branches}

CloneInit ==
    /\ pc = "clone"
    /\ repo_cache \in BOOLEAN
    /\ env \in [branches : SUBSET Branches \ {{}}, head : Branches,
                faults : SUBSET Operations, cached : CacheDirs]
    /\ env.head \in env.branches
    /\ "mkdir" \in env.faults => env.cached.kind = "missing"
    /\ cache_dir = env.cached
    /\ origin(cache_dir.head) \in cache_dir.refs \cup {origin(None)}
    /\ temp_dir = Missing
    /\ git_log = <<>>
    /\ repo_path = None
    /\ cleanup_repo = FALSE
    /\ clone_out = [status |-> Idle, value |-> None]
    /\ SynthIdle /\ RangesIdle /\ OverlapIdle /\ FileIdle /\ CommitIdle /\ parsers = {} /\ TeardownIdle /\ AccessIdle /\ AstIdle /\ FormatIdle /\ MainIdle
    /\ ScanIdle /\ HandleIdle

\* self.repo_path = self.clone_repository(repo_slug, host) in __init__
CloneRepository ==
    /\ pc = "clone"
    /\ \E result \in {clone_repository(World(cache_dir, temp_dir, git_log, cleanup_repo),
                                       repo_cache, env)} :
          /\ cache_dir' = result.world.cache_dir
          /\ temp_dir' = result.world.temp_dir
          /\ git_log' = result.world.git_log
          /\ cleanup_repo' = result.world.cleanup_repo
          /\ clone_out' = [status |-> result.status, value |-> result.value]
          /\ repo_path' = IF result.status = "returned" THEN result.value ELSE None
          /\ self_repo' = IF result.status = "returned" THEN result.value ELSE None
          /\ pc' = IF result.status = "returned" THEN "cloned" ELSE "clone_raised"
    /\ UNCHANGED <<pre_text, post_text, paths, diff, func_diff, hunks, unified_diff,
                   ranges_out, span, changed, overlap_out, pre_file, post_file, file_diff,
                   file_path, affected, repo, available, commit, depth, parsers, outcome,
                   scan_result, files_changed, interesting, language_configs, requested,
                   loads, calls, repo_cache, env,
                   cleanups, response,
                   blob_index, changed_out, diffs_out, file_out,
                   ast_file, ast_config, functions,
                   vulnerabilities, format_out,
                   cve_ids, checkpoint_frequency, processed_results, checkpointer, checkpoint_files, final_saved>>

\* self.cleanup(), called by the user or by __exit__
Cleanup ==
    /\ pc \in {"cloned", "cleaned"}
    /\ cleanups < MaxCleanups
    /\ \E result \in {cleanup(World(cache_dir, temp_dir, git_log, cleanup_repo),
                              repo_path, self_repo, env)} :
          /\ cache_dir' = result.world.cache_dir
          /\ temp_dir' = result.world.temp_dir
          /\ git_log' = result.world.git_log
          /\ repo_path' = result.repo_path
          /\ self_repo' = result.repo
    /\ cleanups' = cleanups + 1
    /\ pc' = "cleaned"
    /\ UNCHANGED <<pre_text, post_text, paths, diff, func_diff, hunks, unified_diff,
                   ranges_out, span, changed, overlap_out, pre_file, post_file, file_diff,
                   file_path, affected, repo, available, commit, depth, parsers, outcome,
                   scan_result, files_changed, interesting, language_configs, requested,
                   loads, calls, repo_cache, env, cleanup_repo, clone_out, response,
                   blob_index, changed_out, diffs_out, file_out,
                   ast_file, ast_config, functions,
                   vulnerabilities, format_out,
                   cve_ids, checkpoint_frequency, processed_results, checkpointer, checkpoint_files, final_saved>>

CloneNext == CloneRepository \/ Cleanup

CloneSpec == CloneInit /\ [][CloneNext]_vars

----------------------------------------------------------------------------
(* The RepoCloner tool of server.py *)

\* RepoCloneResponse
RepoCloneResponse(repo_path0, clone_success) ==
    [status |-> "returned", repo_path |-> repo_path0, clone_success |-> clone_success]

\* how a call of the tool ends, and the handle and the disk it leaves
ClonerResult(response0, teardown) == [response |-> response0, teardown |-> teardown]

\* the with statement of repo_cloner: the handle is made, the response is
\* built from generator.repo_path, and __exit__ calls cleanup; any exception
\* becomes the response of a failure
cloner_with(world, environment) ==
    Only({IF cloned.status = "raised"
          THEN ClonerResult(RepoCloneResponse(<<>>, FALSE), Teardown(cloned.world, None, None))
          ELSE ClonerResult(RepoCloneResponse(cloned.value, TRUE),
                            cleanup(cloned.world, cloned.value, cloned.value, environment)) :
          cloned \in {clone_repository(world, TRUE, environment)}})

\* repo_cloner: the cache directory is made when it is missing, outside of
\* the try block; a failing mkdir means a cache directory that is missing and
\* cannot be made, or one that is a file, which counts as existing
repo_cloner(world, environment, cache_is_file) ==
    IF "mkdir" \in environment.faults /\ ~cache_is_file
    THEN ClonerResult([status |-> "raised", repo_path |-> <<>>, clone_success |-> FALSE],
                      Teardown(logged(logged(world, "mkdir"), "OSError"), None, None))
    ELSE cloner_with(world, environment)

ClonerInit ==
    /\ pc = "cloner"
    /\ repo_cache = TRUE
    /\ env \in [branches : SUBSET Branches \ {{}}, head : Branches,
                faults : SUBSET Operations, cached : CacheDirs]
    /\ env.head \in env.branches
    /\ "mkdir" \in env.faults => env.cached.kind = "missing"
    /\ cache_dir = env.cached
    /\ origin(cache_dir.head) \in cache_dir.refs \cup {origin(None)}
    /\ temp_dir = Missing
    /\ git_log = <<>>
    /\ repo_path = None
    /\ cleanup_repo = FALSE
    /\ clone_out = [status |-> Idle, value |-> None]
    /\ SynthIdle /\ RangesIdle /\ OverlapIdle /\ FileIdle /\ CommitIdle /\ parsers = {} /\ AccessIdle /\ AstIdle /\ FormatIdle /\ MainIdle
    /\ ScanIdle /\ HandleIdle /\ TeardownIdle

\* one call of the RepoCloner tool
RepoCloner ==
    /\ pc = "cloner"
    /\ \E cache_is_file \in BOOLEAN :
          \E result \in {repo_cloner(World(cache_dir, temp_dir, git_log, cleanup_repo),
                                     env, cache_is_file)} :
             /\ response' = result.response
             /\ cache_dir' = result.teardown.world.cache_dir
             /\ temp_dir' = result.teardown.world.temp_dir
             /\ git_log' = result.teardown.world.git_log
             /\ cleanup_repo' = result.teardown.world.cleanup_repo
             /\ repo_path' = result.teardown.repo_path
             /\ self_repo' = result.teardown.repo
    /\ pc' = "cloner_done"
    /\ UNCHANGED <<pre_text, post_text, paths, diff, func_diff, hunks, unified_diff,
                   ranges_out, span, changed, overlap_out, pre_file, post_file, file_diff,
                   file_path, affected, repo, available, commit, depth, parsers, outcome,
                   scan_result, files_changed, interesting, language_configs, requested,
                   loads, calls, repo_cache, env, clone_out, cleanups,
                   blob_index, changed_out, diffs_out, file_out,
                   ast_file, ast_config, functions,
                   vulnerabilities, format_out,
                   cve_ids, checkpoint_frequency, processed_results, checkpointer, checkpoint_files, final_saved>>

ClonerNext == RepoCloner

ClonerSpec == ClonerInit /\ [][ClonerNext]_vars

----------------------------------------------------------------------------
(* Claims about the cache of clone_repository *)

\* clone_repository has ended, with a path or with an error
CloneEnded == pc \in {"cloned", "clone_raised"}

\* no operation of the run raised an error
NoErrorLogged == \A k \in 1..Len(git_log) : git_log[k] \notin {"GitError", "OSError"}

\* no clone was made in the run
NoCloneLogged ==
    \A k \in 1..Len(git_log) : git_log[k] \notin {"clone to cache", "clone to temp"}

\* the remote-tracking refs of the cached repository once the fetch is done
RefsAfterFetch == env.cached.refs \cup {origin(branch) : branch \in env.branches}

C20_FreshCloneInCache ==
    CloneEnded /\ repo_cache /\ env.cached.kind \in {"invalid", "missing"}
    /\ env.faults = {} =>
        /\ clone_out = [status |-> "returned", value |-> "cache"]
        /\ repo_path = "cache"
        /\ cleanup_repo = FALSE
        /\ cache_dir = Clone({origin(branch) : branch \in env.branches}, env.head)
        /\ temp_dir = Missing
        /\ git_log = IF env.cached.kind = "invalid"
                     THEN <<"mkdir", "rmtree", "clone to cache">>
                     ELSE <<"mkdir", "clone to cache">>

\* an invalid cache path was deleted and replaced by a clone
C20_Witness ==
    /\ pc = "cloned" /\ repo_cache /\ env.cached.kind = "invalid" /\ env.faults = {}
    /\ cache_dir.kind = "repo"
    /\ repo_path = "cache"
    /\ ~cleanup_repo

\* the place in the log of the first error, 0 when there is none
FirstError ==
    Min_of({k \in 1..Len(git_log) : git_log[k] \in {"GitError", "OSError"}} \cup {Len(git_log) + 1})

\* an operation on the cache raised: the first error of the run comes before
\* any clone to a temporary directory
CacheRaised ==
    /\ repo_cache
    /\ FirstError <= Len(git_log)
    /\ \A k \in 1..FirstError : git_log[k] # "clone to temp"

\* C21: without a cache, or once an operation on the cache has raised an
\* OSError or a GitError, clone_repository clones to a temporary directory,
\* at once without a cache and else right after an error; when that
\* clone succeeds the temporary path is returned and marked for removal, and
\* when it fails its GitError reaches the caller
C21_FallbackToTemporaryClone ==
    CloneEnded /\ (~repo_cache \/ CacheRaised) =>
        /\ \E k \in 1..Len(git_log) :
              /\ git_log[k] = "clone to temp"
              /\ ~repo_cache => k = 1
              /\ repo_cache => k > FirstError /\ git_log[k - 1] \in {"GitError", "OSError"}
        /\ IF "clone to temp" \in env.faults
           THEN /\ pc = "clone_raised"
                /\ clone_out = [status |-> "raised", value |-> "GitError"]
                /\ git_log[Len(git_log)] = "GitError"
                /\ repo_path = None
                /\ temp_dir = Missing
           ELSE /\ pc = "cloned"
                /\ clone_out = [status |-> "returned", value |-> "temp"]
                /\ repo_path = "temp"
                /\ cleanup_repo
                /\ temp_dir = Clone({origin(branch) : branch \in env.branches}, env.head)

\* the update of a cached repository raised and a temporary clone was made
C21_Witness ==
    /\ pc = "cloned" /\ CacheRaised /\ env.cached.kind = "repo"
    /\ repo_path = "temp"
    /\ cleanup_repo
    /\ temp_dir.kind = "repo"

----------------------------------------------------------------------------
(* Claims about cleanup *)

\* the handle's working copy and the two places on disk
HandleAndDisk == <<cache_dir, temp_dir, repo_path, self_repo, cleanup_repo>>

\* C22: a call of cleanup on a handle whose working copy is a temporary clone
\* sets repo_path and repo to None and, the removal not failing, leaves no
\* temporary directory; on a handle whose working copy is the cache path it
\* changes neither the handle nor the disk; a call after the first changes
\* nothing; the cache path is never touched
C22_CleanupRemovesTemporaryOnly ==
    [][cleanups' = cleanups + 1 =>
          /\ cache_dir' = cache_dir
          /\ cleanup_repo' = cleanup_repo
          /\ IF repo_path = "temp"
             THEN /\ repo_path' = None
                  /\ self_repo' = None
                  /\ "rmtree" \notin env.faults => temp_dir' = Missing
             ELSE UNCHANGED HandleAndDisk
          /\ cleanups > 0 => UNCHANGED HandleAndDisk]_vars

\* a temporary clone was removed by the first of two calls of cleanup
C22_Witness ==
    /\ pc = "cleaned" /\ cleanups = MaxCleanups
    /\ clone_out = [status |-> "returned", value |-> "temp"]
    /\ "rmtree" \notin env.faults
    /\ temp_dir = Missing
    /\ repo_path = None /\ self_repo = None

----------------------------------------------------------------------------
(* Claims about the RepoCloner tool *)

\* the path of a response holds a repository
HoldsRepository(path) ==
    \/ path = "cache" /\ cache_dir.kind = "repo"
    \/ path = "temp" /\ temp_dir.kind = "repo"

\* the last clone tried in the run raised
CloningFailed == git_log # <<>> /\ git_log[Len(git_log)] = "GitError"

\* C28: a response of the RepoCloner tool with clone_success true names a
\* path that holds a cloned repository once the tool has returned, whatever
\* way the repository was acquired; when cloning fails the tool raises
\* nothing and responds with clone_success false and an empty path
C28_ReturnedPathStillExists ==
    pc = "cloner_done" =>
        /\ response.clone_success => HoldsRepository(response.repo_path)
        /\ CloningFailed => response = RepoCloneResponse(<<>>, FALSE)

----------------------------------------------------------------------------
(* Specification of extract_functions_from_ast *)

\* a Python class definition: its name and, on the next lines, its members
PyClass(name, members) == Node("class_definition", <<Leaf("identifier", name)>> \o members)

\* a Python function definition whose body holds the given definitions
PyFunctionWith(name, members) ==
    Node("function_definition", <<Leaf("identifier", name)>> \o members)

\* the top-level nodes of the Python files: functions, a class with a method,
\* a class in a class, a function in a function, a class in a function
PythonNodes ==
    {FunctionNode("f", "x"),
     FunctionNode("g", "y"),
     PyClass("C", <<FunctionNode("f", "x")>>),
     PyClass("A", <<PyClass("B", <<FunctionNode("f", "x")>>), FunctionNode("g", "x")>>),
     PyFunctionWith("f", <<FunctionNode("g", "x")>>),
     PyFunctionWith("f", <<PyClass("C", <<FunctionNode("m", "x")>>)>>),
     PyClass("C", <<PyFunctionWith("m", <<FunctionNode("g", "x")>>)>>),
     Leaf("expression_statement", "x")}

\* a JavaScript arrow function `(a) => a + 1`, or `() => 1` without parameter
ArrowFunction(parameters) ==
    InlineNode("arrow_function",
               <<InlineNode("formal_parameters",
                            <<Leaf("(", "(")>>
                            \o [k \in 1..Len(parameters) |-> Leaf("identifier", parameters[k])]
                            \o <<Leaf(")", ")")>>),
                 Leaf("=>", ">"),
                 IF parameters = <<>> THEN Leaf("number", "1")
                 ELSE InlineNode("binary_expression",
                                 <<Leaf("identifier", parameters[1]), Leaf("+", "+"),
                                   Leaf("number", "1")>>)>>)

\* `const f = <value>`
LexicalDeclaration(name, value) ==
    InlineNode("lexical_declaration",
               <<Leaf("const", "c"),
                 InlineNode("variable_declarator",
                            <<Leaf("identifier", name), Leaf("=", "="), value>>)>>)

\* the top-level nodes of the JavaScript files
JavaScriptNodes ==
    {Node("function_declaration", <<Leaf("identifier", "f"), Leaf("statement_block", "x")>>),
     LexicalDeclaration("f", ArrowFunction(<<"a">>)),
     LexicalDeclaration("f", ArrowFunction(<<>>)),
     InlineNode("expression_statement", <<ArrowFunction(<<"a">>)>>)}

\* a Rust function item
FunctionItem(name) == Node("function_item", <<Leaf("identifier", name), Leaf("block", "x")>>)

\* `impl F { fn b() ... }`: the type an impl block is for is a type_identifier
ImplItem(type, members) ==
    Node("impl_item", <<Leaf("type_identifier", type), Node("declaration_list", members)>>)

\* the top-level nodes of the Rust files
RustNodes ==
    {FunctionItem("f"),
     ImplItem("F", <<FunctionItem("b")>>),
     ImplItem("F", <<FunctionItem("b"), FunctionItem("c")>>),
     Node("struct_item", <<Leaf("type_identifier", "F")>>)}

\* the files given to extract_functions_from_ast, each with the config of
\* its language
AstInputs ==
    {[file |-> SourceFile(items), config |-> LanguageConfig_python] :
        items \in SeqsUpTo(PythonNodes, MaxItems)}
    \cup {[file |-> SourceFile(items), config |-> LanguageConfig_javascript] :
             items \in SeqsUpTo(JavaScriptNodes, MaxItems)}
    \cup {[file |-> SourceFile(items), config |-> LanguageConfig_rust] :
             items \in SeqsUpTo(RustNodes, MaxItems)}

AstInit ==
    /\ pc = "ast"
    /\ \E input \in AstInputs : ast_file = input.file /\ ast_config = input.config
    /\ functions = <<>>
    /\ SynthIdle /\ RangesIdle /\ OverlapIdle /\ FileIdle /\ CommitIdle /\ parsers = {} /\ FormatIdle /\ MainIdle
    /\ ScanIdle /\ HandleIdle /\ CloneIdle /\ TeardownIdle /\ AccessIdle

\* self.extract_functions_from_ast(text, parser, language_config)
ExtractFunctionsFromAst ==
    /\ pc = "ast"
    /\ functions' = extract_functions_from_ast(ast_file.text, ast_file.root_node, ast_config)
    /\ pc' = "ast_done"
    /\ UNCHANGED <<pre_text, post_text, paths, diff, func_diff, hunks, unified_diff,
                   ranges_out, span, changed, overlap_out, pre_file, post_file, file_diff,
                   file_path, affected, repo, available, commit, depth, parsers, outcome,
                   scan_result, files_changed, interesting, language_configs, requested,
                   loads, calls, repo_cache, env, cache_dir, temp_dir, git_log, repo_path,
                   cleanup_repo, clone_out, self_repo, cleanups, response, blob_index,
                   changed_out, diffs_out, file_out, ast_file, ast_config,
                   vulnerabilities, format_out,
                   cve_ids, checkpoint_frequency, processed_results, checkpointer, checkpoint_files, final_saved>>

AstNext == ExtractFunctionsFromAst

AstSpec == AstInit /\ [][AstNext]_vars

----------------------------------------------------------------------------
(* Claims about extract_functions_from_ast *)

\* the node types grammars give to the name of a definition
NameTypes == {"identifier", "type_identifier", "property_identifier"}

\* the name a definition node declares: the text of its first child that is
\* a name, NoName without one
DeclaredName(node) ==
    Only({IF names = {} THEN NoName
          ELSE Slice(ast_file.text, node.children[Min_of(names)].start_byte,
                     node.children[Min_of(names)].end_byte) :
          names \in {{k \in 1..Len(node.children) : node.children[k].type \in NameTypes}}})

RECURSIVE FunctionNodesBelow(_, _, _)
\* every function node at or below a node, with the name of the innermost
\* class node around it and whether a function node is around it
FunctionNodesBelow(node, class, in_function) ==
    (IF node.type \in ast_config.function_node_types
     THEN {[node |-> node, class |-> class, in_function |-> in_function]}
     ELSE {})
    \cup UNION {FunctionNodesBelow(
                    node.children[k],
                    IF node.type \in ast_config.class_node_types
                       /\ node.type \notin ast_config.function_node_types
                    THEN DeclaredName(node) ELSE class,
                    in_function \/ node.type \in ast_config.function_node_types) :
                k \in 1..Len(node.children)}

\* the function nodes of the file
FunctionNodesOfFile == FunctionNodesBelow(ast_file.root_node, NoName, FALSE)

\* the function nodes a span may stand for: those with its byte range
NodesOf(func, function_nodes) ==
    {entry \in function_nodes :
        entry.node.start_byte = func.start_byte /\ entry.node.end_byte = func.end_byte}

\* C25: the qualified name of every reported span is name alone outside of
\* any class node, and else the name of the innermost class node around the
\* function, the separator of the language, and name
C25_QualifiedNameOfInnermostClass ==
    pc = "ast_done" =>
        \A function_nodes \in {FunctionNodesOfFile} :
            \A k \in 1..Len(functions) :
                \E entry \in NodesOf(functions[k], function_nodes) :
                    qualified_name(functions[k]) =
                        IF entry.class = NoName THEN functions[k].name
                        ELSE entry.class \o ast_config.qualified_name_separator
                             \o functions[k].name

\* C26: every reported span stands for a function node that has an
\* identifier of its own, a direct child, and carries that name; a function
\* node without one is not reported under an identifier of its parameters or
\* its body
C26_AnonymousFunctionsSkipped ==
    pc = "ast_done" =>
        \A function_nodes \in {FunctionNodesOfFile} :
            \A k \in 1..Len(functions) :
                \E entry \in NodesOf(functions[k], function_nodes) :
                    \E c \in 1..Len(entry.node.children) :
                        /\ entry.node.children[c].type = ast_config.identifier_node_type
                        /\ functions[k].name = Slice(ast_file.text,
                                                     entry.node.children[c].start_byte,
                                                     entry.node.children[c].end_byte)

\* C30: the byte ranges of any two reported spans are disjoint, and no span
\* stands for a function node that lies inside another function node
C30_OnlyOutermostFunctions ==
    pc = "ast_done" =>
        /\ \A j, k \in 1..Len(functions) :
              j < k => \/ functions[j].end_byte <= functions[k].start_byte
                       \/ functions[k].end_byte <= functions[j].start_byte
        /\ \A function_nodes \in {FunctionNodesOfFile} :
              \A k \in 1..Len(functions) :
                 \A entry \in NodesOf(functions[k], function_nodes) : ~entry.in_function

\* a method that holds a function, and a function that holds one: two spans,
\* none for the inner functions
C30_Witness ==
    /\ pc = "ast_done"
    /\ ast_config = LanguageConfig_python
    /\ ast_file = SourceFile(<<PyClass("C", <<PyFunctionWith("m", <<FunctionNode("g", "x")>>)>>),
                               PyFunctionWith("f", <<FunctionNode("g", "x")>>)>>)
    /\ Len(functions) = 2
    /\ functions[1].name = <<"m">> /\ functions[2].name = <<"f">>

----------------------------------------------------------------------------
(* The VulnerableFunctionSearchFormatter tool of server.py *)

\* the bounds of the length of a commit SHA in the pattern {7,40}
MinShaLength == 7

MaxShaLength == 40

\* the characters of [a-fA-F0-9]
HexDigits ==
    {"0", "1", "2", "3", "4", "5", "6", "7", "8", "9",
     "a", "b", "c", "d", "e", "f", "A", "B", "C", "D", "E", "F"}

\* str(Path.home())
Home == <<"/", "h">>

\* re.match(r'^[a-fA-F0-9]{7,40}$', commit_sha): $ matches at the end and
\* before a newline that ends the text
matches_sha_pattern(commit_sha) ==
    \E hex \in {commit_sha}
               \cup (IF commit_sha # <<>> /\ commit_sha[Len(commit_sha)] = NL
                     THEN {SubSeq(commit_sha, 1, Len(commit_sha) - 1)} ELSE {}) :
        /\ Len(hex) \in MinShaLength..MaxShaLength
        /\ \A k \in 1..Len(hex) : hex[k] \in HexDigits

\* Vulnerability
Vulnerability(file_path0, function_name, commit_sha, diff_url, affected_versions) ==
    [file_path |-> file_path0, function_name |-> function_name, commit_sha |-> commit_sha,
     diff_url |-> diff_url, affected_versions |-> affected_versions]

\* the body of the loop of vulnerable_function_presentation: the message of
\* the ValueError raised for a vulnerability, None when none is raised
raised_for(vuln) ==
    IF vuln.file_path = <<>> THEN "File path is empty"
    ELSE IF StartsWith(vuln.file_path, Home) THEN "Possible security issue"
    ELSE IF vuln.function_name = <<>> THEN "Function name is empty"
    ELSE IF vuln.commit_sha = <<>> THEN "Commit SHA is empty"
    ELSE IF ~matches_sha_pattern(vuln.commit_sha) THEN "Commit SHA is invalid"
    ELSE IF vuln.diff_url = <<>> THEN "Diff URL is empty"
    ELSE IF vuln.affected_versions = <<>> THEN "Affected versions is empty"
    ELSE None

\* how a call of the formatter ends
FormatReturned(message) == [status |-> "returned", error |-> None, message |-> message]

FormatRaised(error, message) == [status |-> "raised", error |-> error, message |-> message]

\* vulnerable_function_presentation
vulnerable_function_presentation(vulns) ==
    IF Len(vulns) < 1 THEN FormatReturned("Input formatting is incorrect")
    ELSE Only({IF failing = {} THEN FormatReturned("Input formatting is correct")
               ELSE FormatRaised("ValueError", raised_for(vulns[Min_of(failing)])) :
               failing \in {{k \in 1..Len(vulns) : raised_for(vulns[k]) # None}}})

\* the values of the fields of the modelled vulnerabilities: SHAs of 6, 7, 40
\* and 41 hexadecimal digits, one with another letter, one ending in a newline
ShaValues ==
    {<<>>, Repeat("a", MinShaLength - 1), Repeat("A", MinShaLength),
     Repeat("0", MaxShaLength), Repeat("f", MaxShaLength + 1),
     Repeat("a", MinShaLength - 1) \o <<"g">>, Repeat("a", MinShaLength) \o <<NL>>}

Vulnerabilities ==
    {Vulnerability(file_path0, function_name, commit_sha, diff_url, affected_versions) :
        file_path0 \in {<<>>, <<"s">>, Home \o <<"/", "s">>},
        function_name \in {<<>>, <<"f">>},
        commit_sha \in ShaValues,
        diff_url \in {<<>>, <<"u">>},
        affected_versions \in {<<>>, << <<"1">> >>}}

FormatInit ==
    /\ pc = "format"
    /\ vulnerabilities \in SeqsUpTo(Vulnerabilities, MaxItems)
    /\ format_out = FormatReturned(Idle)
    /\ SynthIdle /\ RangesIdle /\ OverlapIdle /\ FileIdle /\ CommitIdle /\ parsers = {} /\ MainIdle
    /\ ScanIdle /\ HandleIdle /\ CloneIdle /\ TeardownIdle /\ AccessIdle /\ AstIdle

\* one call of the VulnerableFunctionSearchFormatter tool
VulnerableFunctionPresentation ==
    /\ pc = "format"
    /\ format_out' = vulnerable_function_presentation(vulnerabilities)
    /\ pc' = "format_done"
    /\ UNCHANGED <<pre_text, post_text, paths, diff, func_diff, hunks, unified_diff,
                   ranges_out, span, changed, overlap_out, pre_file, post_file, file_diff,
                   file_path, affected, repo, available, commit, depth, parsers, outcome,
                   scan_result, files_changed, interesting, language_configs, requested,
                   loads, calls, repo_cache, env, cache_dir, temp_dir, git_log, repo_path,
                   cleanup_repo, clone_out, self_repo, cleanups, response, blob_index,
                   changed_out, diffs_out, file_out, ast_file, ast_config, functions,
                   vulnerabilities,
                   cve_ids, checkpoint_frequency, processed_results, checkpointer, checkpoint_files, final_saved>>

FormatNext == VulnerableFunctionPresentation

FormatSpec == FormatInit /\ [][FormatNext]_vars

\* a commit SHA is 7 to 40 hexadecimal characters
IsSha(commit_sha) ==
    /\ Len(commit_sha) \in MinShaLength..MaxShaLength
    /\ \A k \in 1..Len(commit_sha) : commit_sha[k] \in HexDigits

\* the input has a formatting issue
HasIssue(vulns) ==
    \/ vulns = <<>>
    \/ \E k \in 1..Len(vulns) :
          \/ vulns[k].file_path = <<>>
          \/ StartsWith(vulns[k].file_path, Home \o <<"/">>)
          \/ vulns[k].function_name = <<>>
          \/ ~IsSha(vulns[k].commit_sha)
          \/ vulns[k].diff_url = <<>>
          \/ vulns[k].affected_versions = <<>>

\* C27: the formatter raises ValueError whenever the input has a formatting
\* issue, and returns the message that the formatting is correct only when
\* it has none
C27_IssuesRaiseValueError ==
    pc = "format_done" =>
        /\ HasIssue(vulnerabilities) => format_out = FormatRaised("ValueError", format_out.message)
        /\ format_out = FormatReturned("Input formatting is correct")
              => ~HasIssue(vulnerabilities)

----------------------------------------------------------------------------
(* SaveCheckpointCallback and main of get_vul_funcs__claude_code.py *)

\* SaveCheckpointCallback.__init__
NewCheckpointer == [checkpoint_counter |-> 0, last_checkpoint_index |-> -1]

\* start_idx = self.last_checkpoint_index + 1
start_idx_of(last_checkpoint_index) == last_checkpoint_index + 1

\* checkpoint_data of SaveCheckpointCallback.__call__
checkpoint_data(callback, current_index, results) ==
    Only({[checkpoint_number |-> callback.checkpoint_counter,
           start_index |-> start_idx,
           end_index |-> end_idx - 1,
           current_index |-> current_index,
           processed_results |-> Slice(results, start_idx, end_idx),
           batch_size |-> Len(Slice(results, start_idx, end_idx)),
           total_processed_so_far |-> Len(results)] :
          start_idx \in {start_idx_of(callback.last_checkpoint_index)},
          end_idx \in {Len(results)}})

\* the tracking stays one result behind the current index
last_checkpoint_index_behind(current_index) == current_index - 1

\* self.last_checkpoint_index = current_index
last_checkpoint_index_after(current_index) == current_index

\* SaveCheckpointCallback.__call__ inside the try block of main: the file
\* chpk<counter>.json is written and the tracking updated, or making the
\* directory or writing the file raises and nothing changes
save_checkpoint(callback, files, current_index, results, written) ==
    IF written
    THEN [callback |-> [checkpoint_counter |-> callback.checkpoint_counter + 1,
                        last_checkpoint_index |-> last_checkpoint_index_after(current_index)],
          files |-> [k \in 1..Max(Len(files), callback.checkpoint_counter + 1) |->
                        IF k = callback.checkpoint_counter + 1
                        THEN checkpoint_data(callback, current_index, results)
                        ELSE files[k]]]
    ELSE [callback |-> callback, files |-> files]

\* what get_vul_funcs leaves in processed_results for a CVE
result_of(cve_id, succeeded) ==
    IF succeeded THEN [result |-> cve_id, error_msg |-> ""]
    ELSE [result |-> "", error_msg |-> "Could not retrieve structured output"]

MainInit ==
    /\ pc = "main_loop"
    /\ cve_ids \in {[k \in 1..n |-> k] : n \in 0..MaxCves}
    /\ checkpoint_frequency \in 1..MaxFrequency
    /\ processed_results = <<>>
    /\ checkpointer = NewCheckpointer
    /\ checkpoint_files = <<>>
    /\ final_saved = FALSE
    /\ SynthIdle /\ RangesIdle /\ OverlapIdle /\ FileIdle /\ CommitIdle /\ parsers = {}
    /\ ScanIdle /\ HandleIdle /\ CloneIdle /\ TeardownIdle /\ AccessIdle /\ AstIdle
    /\ FormatIdle

\* the frame of the steps of main
MainFrame ==
    UNCHANGED <<pre_text, post_text, paths, diff, func_diff, hunks, unified_diff,
                ranges_out, span, changed, overlap_out, pre_file, post_file, file_diff,
                file_path, affected, repo, available, commit, depth, parsers, outcome,
                scan_result, files_changed, interesting, language_configs, requested,
                loads, calls, repo_cache, env, cache_dir, temp_dir, git_log, repo_path,
                cleanup_repo, clone_out, self_repo, cleanups, response, blob_index,
                changed_out, diffs_out, file_out, ast_file, ast_config, functions,
                vulnerabilities, format_out, cve_ids, checkpoint_frequency>>

\* one pass of the loop of main over cve_ids: the result or the error of the
\* CVE is appended, and every checkpoint_frequency CVEs the callback is called
ProcessCve ==
    /\ pc = "main_loop"
    /\ Len(processed_results) < Len(cve_ids)
    /\ \E succeeded \in BOOLEAN, written \in BOOLEAN :
          \E i \in {Len(processed_results)} :
             \E results \in {Append(processed_results, result_of(cve_ids[i + 1], succeeded))} :
                /\ processed_results' = results
                /\ IF (i + 1) % checkpoint_frequency = 0
                   THEN \E saved \in {save_checkpoint(checkpointer, checkpoint_files, i,
                                                      results, written)} :
                           /\ checkpointer' = saved.callback
                           /\ checkpoint_files' = saved.files
                   ELSE UNCHANGED <<checkpointer, checkpoint_files>>
    /\ UNCHANGED <<pc, final_saved>>
    /\ MainFrame

\* the callback after the loop, with len(cve_ids) - 1 as current index
FinalCallbacks ==
    /\ pc = "main_loop"
    /\ Len(processed_results) = Len(cve_ids)
    /\ \E written \in BOOLEAN :
          \E saved \in {save_checkpoint(checkpointer, checkpoint_files, Len(cve_ids) - 1,
                                        processed_results, written)} :
             /\ checkpointer' = saved.callback
             /\ checkpoint_files' = saved.files
             /\ final_saved' = written
    /\ pc' = "main_done"
    /\ UNCHANGED processed_results
    /\ MainFrame

MainNext == ProcessCve \/ FinalCallbacks

MainSpec == MainInit /\ [][MainNext]_vars

\* the results of the checkpoint files, one file after the other
SavedResults == Concat([k \in 1..Len(checkpoint_files) |-> checkpoint_files[k].processed_results])

=============================================================================
